---- MODULE Spec2Model ----
(***************************************************************************)
(* mycoach: source reconciliation (Hevy CSV importer, Garmin importer,     *)
(* cross-source merger), health-snapshot importer and the coaching         *)
(* engine's bounded-retry generation cycle.                                *)
(*                                                                         *)
(* Times are seconds on one axis (a datetime is an integer); a nullable    *)
(* column holds NULL when it is None.  Row ids follow the store the        *)
(* program configures (SQLite INTEGER PRIMARY KEY: largest id + 1).        *)
(***************************************************************************)
EXTENDS Integers, Sequences, FiniteSets, TLC

VARIABLES activities, details, snapshots, insights, promptLogs, last,
          weeklyPlans, plannedSessions, availability, requests

vars == <<activities, details, snapshots, insights, promptLogs, last,
          weeklyPlans, plannedSessions, availability, requests>>

NULL == -1

(* merger.py: OVERLAP_TOLERANCE = timedelta(minutes=30), in seconds *)
OVERLAP_TOLERANCE == 1800

(* --------------------------- bounds ------------------------------------ *)
(* longest parse result (workouts) and longest device batch (raw items) *)
MaxBatch == 2
(* calendar days a health snapshot is imported for *)
NumDays == 2
(* PromptLog rows the engine may write before generation calls stop *)
MaxPromptLogs == 2
(* Activity rows the store may hold; an import that would exceed it is not made *)
MaxRows == 3

Users == {1, 2}

Max(a, b) == IF a >= b THEN a ELSE b
Min(a, b) == IF a <= b THEN a ELSE b

(* the id the store gives the next inserted row of a table *)
NewId(rows) ==
  IF rows = {} THEN 1
  ELSE (CHOOSE i \in {r.id : r \in rows} : \A r \in rows : r.id <= i) + 1

(* rows of a table in the order an unordered SELECT returns them (rowid) *)
RECURSIVE SeqById(_)
SeqById(rows) ==
  IF rows = {} THEN <<>>
  ELSE LET r == CHOOSE x \in rows : \A y \in rows : x.id <= y.id
       IN <<r>> \o SeqById(rows \ {r})

Range(s) == {s[i] : i \in 1..Len(s)}

(* sequences of length 1..n of distinct elements of S *)
SeqsUpTo(S, n) ==
  {t \in UNION {[1..k -> S] : k \in 1..n} :
     \A i, j \in DOMAIN t : i # j => t[i] # t[j]}

(* ------------------------ inputs: Hevy CSV ----------------------------- *)
(* HevyWorkout values a parse result may hold *)
HevyWorkouts ==
  << [title |-> "Push Day", start_time |-> 0, end_time |-> 3600,
      sets |-> << [exercise_title |-> "Bench Press", set_index |-> 1],
                  [exercise_title |-> "Bench Press", set_index |-> 2] >>],
     [title |-> "Pull Day", start_time |-> 5400, end_time |-> NULL,
      sets |-> << [exercise_title |-> "Row", set_index |-> 1] >>] >>

(* parse results: the first user uploads up to MaxBatch distinct CSV groups *)
(* in file order; the second user uploads no CSV                            *)
ParseResults(user_id) ==
  IF user_id = 1
  THEN { [i \in DOMAIN s |-> HevyWorkouts[s[i]]] :
           s \in SeqsUpTo(DOMAIN HevyWorkouts, MaxBatch) }
  ELSE {}

(* ----------------------- inputs: Garmin API ---------------------------- *)
(* a typeKey the API delivers as JSON null: raw["activityType"] is         *)
(* {"typeKey": None}, so .get("typeKey", "") returns None, not ""          *)
NoneTypeKey == "<None>"

(* well-formed raw activity dicts the device API may deliver *)
RawActivities ==
  { [activityId |-> 101, typeKey |-> "strength_training", start |-> 120,
     duration |-> 3540, averageHR |-> 135, maxHR |-> 165, calories |-> 450,
     heartRateZones |-> 1, aerobicTrainingEffect |-> 32,
     anaerobicTrainingEffect |-> 15],
    [activityId |-> 102, typeKey |-> "strength_training", start |-> 120,
     duration |-> 3600, averageHR |-> 128, maxHR |-> 171, calories |-> 390,
     heartRateZones |-> 2, aerobicTrainingEffect |-> 28,
     anaerobicTrainingEffect |-> 11],
    [activityId |-> 103, typeKey |-> "strength_training", start |-> 5400,
     duration |-> 1830, averageHR |-> 117, maxHR |-> 149, calories |-> 210,
     heartRateZones |-> NULL, aerobicTrainingEffect |-> 19,
     anaerobicTrainingEffect |-> 7],
    [activityId |-> 104, typeKey |-> "running", start |-> 300,
     duration |-> 1800, averageHR |-> 150, maxHR |-> 180, calories |-> 300,
     heartRateZones |-> NULL, aerobicTrainingEffect |-> 40,
     anaerobicTrainingEffect |-> NULL] }

(* malformed items: one without an activityId, one whose typeKey is null *)
BadRawActivities ==
  { [activityId |-> NULL, typeKey |-> "strength_training", start |-> 0,
     duration |-> 3600, averageHR |-> 120, maxHR |-> 140, calories |-> 200,
     heartRateZones |-> NULL, aerobicTrainingEffect |-> NULL,
     anaerobicTrainingEffect |-> NULL],
    [activityId |-> 105, typeKey |-> NoneTypeKey, start |-> 900,
     duration |-> 1200, averageHR |-> 100, maxHR |-> 120, calories |-> 90,
     heartRateZones |-> NULL, aerobicTrainingEffect |-> NULL,
     anaerobicTrainingEffect |-> NULL] }

(* the one raw activity of the second user's device account *)
OtherRawActivities ==
  { [activityId |-> 201, typeKey |-> "strength_training", start |-> 600,
     duration |-> 3000, averageHR |-> 110, maxHR |-> 150, calories |-> 250,
     heartRateZones |-> 3, aerobicTrainingEffect |-> 20,
     anaerobicTrainingEffect |-> 5] }

(* device batches: the first user syncs up to MaxBatch distinct items, or  *)
(* a batch that lists activity 101 twice, or a batch that mixes the        *)
(* malformed items with activity 101; the second user syncs the one        *)
(* activity of their account                                               *)
RawBatches(user_id) ==
  IF user_id = 1
  THEN SeqsUpTo(RawActivities, MaxBatch) \cup
       {<<r, r>> : r \in {x \in RawActivities : x.activityId = 101}} \cup
       SeqsUpTo(BadRawActivities \cup
                {x \in RawActivities : x.activityId = 101}, MaxBatch)
  ELSE {<<r>> : r \in OtherRawActivities}

(* ------------------------- operation summary --------------------------- *)
(* what the last operation was given and what it returned; repeat says the *)
(* operation before it was the same call (same user, same argument),       *)
(* prevDone how many rows that earlier call created or merged, and stage   *)
(* where a generation call ended: "arguments" (before any query),          *)
(* "idempotency", "context", "model" (after the call / retry block) or     *)
(* "done"                                                                  *)
NoOp ==
  [op |-> "none", user |-> 0, arg |-> <<>>, created |-> 0, skipped |-> 0,
   merged |-> 0, errors |-> 0, pairs |-> {}, flushed |-> <<>>,
   ret |-> FALSE, raised |-> "none", calls |-> 0, repeat |-> FALSE,
   prevDone |-> 0, stage |-> "none"]

(* ---------------------- Hevy CSV importer ------------------------------ *)
(* faulty variant: the lookup compares the stored end_time with the start_time *)
WorkoutExistsByEndTime(acts, user_id, workout) ==
  \E a \in acts :
     /\ a.user_id = user_id
     /\ a.title = workout.title
     /\ a.end_time = workout.start_time
     /\ a.data_source \in {"hevy", "merged"}

(* faulty variant: rows already tagged merged are not looked at *)
WorkoutExistsHevyOnly(acts, user_id, workout) ==
  \E a \in acts :
     /\ a.user_id = user_id
     /\ a.title = workout.title
     /\ a.start_time = workout.start_time
     /\ a.data_source = "hevy"

WorkoutExists(acts, user_id, workout) ==
  \E a \in acts :
     /\ a.user_id = user_id
     /\ a.title = workout.title
     /\ a.start_time = workout.start_time
     /\ a.data_source \in {"hevy", "merged"}

ComputeDuration(workout) ==
  IF workout.end_time = NULL THEN NULL
  ELSE LET minutes == (workout.end_time - workout.start_time) \div 60
       IN IF minutes > 0 THEN minutes ELSE NULL

HevyActivity(id, user_id, workout) ==
  [id |-> id, user_id |-> user_id, sport |-> "gym", title |-> workout.title,
   start_time |-> workout.start_time, end_time |-> workout.end_time,
   duration_minutes |-> ComputeDuration(workout),
   avg_hr |-> NULL, max_hr |-> NULL, calories |-> NULL, hr_zones |-> NULL,
   training_effect_aerobic |-> NULL, training_effect_anaerobic |-> NULL,
   data_source |-> "hevy", garmin_activity_id |-> NULL]

(* the GymWorkoutDetail rows added for one workout's sets *)
RECURSIVE AddDetails(_, _, _)
AddDetails(dets, activity_id, sets) ==
  IF sets = <<>> THEN dets
  ELSE AddDetails(dets \cup {[id |-> NewId(dets), activity_id |-> activity_id,
                              exercise_title |-> Head(sets).exercise_title,
                              set_index |-> Head(sets).set_index]},
                  activity_id, Tail(sets))

(* the loop of import_hevy_workouts over parse_result.workouts *)
RECURSIVE ImportHevyLoop(_, _, _)
ImportHevyLoop(st, user_id, workouts) ==
  IF workouts = <<>> THEN st
  ELSE LET w == Head(workouts) IN
       IF WorkoutExists(st.acts, user_id, w)
       THEN ImportHevyLoop([st EXCEPT !.skipped = @ + 1], user_id, Tail(workouts))
       ELSE LET id == NewId(st.acts) IN
            ImportHevyLoop([acts |-> st.acts \cup {HevyActivity(id, user_id, w)},
                            dets |-> AddDetails(st.dets, id, w.sets),
                            created |-> st.created + 1,
                            skipped |-> st.skipped],
                           user_id, Tail(workouts))

ImportHevyResult(acts, dets, user_id, parse_result) ==
  ImportHevyLoop([acts |-> acts, dets |-> dets, created |-> 0, skipped |-> 0],
                 user_id, parse_result)

ImportHevyWorkouts(user_id, parse_result) ==
  \E r \in {ImportHevyResult(activities, details, user_id, parse_result)} :
  /\ Cardinality(r.acts) <= MaxRows
  /\ activities' = r.acts
  /\ details' = r.dets
  /\ last' = [NoOp EXCEPT !.op = "import_hevy", !.user = user_id,
                          !.arg = parse_result,
                          !.created = r.created, !.skipped = r.skipped,
                          !.repeat = (last.op = "import_hevy"
                                      /\ last.user = user_id
                                      /\ last.arg = parse_result),
                          !.prevDone = IF last.op = "import_hevy"
                                       THEN last.created ELSE 0]
  /\ UNCHANGED <<requests, snapshots, insights, promptLogs,
               weeklyPlans, plannedSessions, availability>>

(* -------------------------- Hevy CSV parser ---------------------------- *)
(* the value csv.DictReader gives a column that a short row does not reach *)
MissingField == "<None>"

MaxCsvRows == 3

(* data rows of an export with all required columns in the header *)
GoodCsvRows ==
  { [title |-> "Push Day", start_time |-> "2024-01-01 00:00:00",
     end_time |-> "2024-01-01 01:00:00", exercise_title |-> "Bench Press",
     set_index |-> "1", set_type |-> "normal"],
    [title |-> "Push Day", start_time |-> " 2024-01-01 00:00:00 ",
     end_time |-> "2024-01-01 01:00:00", exercise_title |-> "Incline Press",
     set_index |-> "1.5", set_type |-> "normal"],
    [title |-> "Push Day", start_time |-> "2024-01-01T00:00:00",
     end_time |-> "", exercise_title |-> "Squat",
     set_index |-> "1", set_type |-> "normal"],
    [title |-> "Pull Day", start_time |-> "2024-01-01 01:30:00",
     end_time |-> "", exercise_title |-> "Row",
     set_index |-> "2", set_type |-> "normal"] }

(* malformed data rows: an empty exercise_title, a start_time that is not  *)
(* a date, a set_index that is not a number, a set_index that float()      *)
(* accepts and int() does not, and a row cut short after the title         *)
BadCsvRows ==
  { [title |-> "Push Day", start_time |-> "2024-01-01 00:00:00",
     end_time |-> "", exercise_title |-> "",
     set_index |-> "1", set_type |-> "normal"],
    [title |-> "Push Day", start_time |-> "yesterday",
     end_time |-> "", exercise_title |-> "Bench Press",
     set_index |-> "1", set_type |-> "normal"],
    [title |-> "Push Day", start_time |-> "2024-01-01 00:00:00",
     end_time |-> "", exercise_title |-> "Bench Press",
     set_index |-> "abc", set_type |-> "normal"],
    [title |-> "Push Day", start_time |-> "2024-01-01 00:00:00",
     end_time |-> "", exercise_title |-> "Bench Press",
     set_index |-> "nan", set_type |-> "normal"],
    [title |-> "Push Day", start_time |-> MissingField,
     end_time |-> MissingField, exercise_title |-> MissingField,
     set_index |-> MissingField, set_type |-> MissingField] }

(* documents: up to MaxCsvRows distinct data rows, at most one kind of     *)
(* malformed row among them                                                *)
CsvDocuments ==
  UNION { SeqsUpTo(GoodCsvRows \cup {b}, MaxCsvRows) : b \in BadCsvRows }

(* str.strip() on the strings of the catalogue *)
Strip(value) ==
  IF value = " 2024-01-01 00:00:00 " THEN "2024-01-01 00:00:00" ELSE value

(* _parse_datetime: seconds since 2024-01-01 00:00:00, NULL for None *)
ParseDatetime(value) ==
  LET v == Strip(value) IN
  CASE v \in {"2024-01-01 00:00:00", "2024-01-01T00:00:00"} -> 0
    [] v = "2024-01-01 01:00:00" -> 3600
    [] v = "2024-01-01 01:30:00" -> 5400
    [] OTHER -> NULL

(* _parse_optional_int raises where int() fails, float() succeeds and the  *)
(* float has no integer value: "nan" (ValueError), "inf" (OverflowError)   *)
ParseOptionalIntRaises(value) == value = "nan"

ParseOptionalInt(value) ==
  CASE value = "1" -> 1
    [] value = "2" -> 2
    [] value = "1.5" -> 1
    [] OTHER -> NULL

(* the position of workout_key in workouts_map, 0 when it is not a key *)
KeyIndex(keys, workout_key) ==
  IF \E i \in DOMAIN keys : keys[i] = workout_key
  THEN CHOOSE i \in DOMAIN keys : keys[i] = workout_key
  ELSE 0

(* faulty variant: a workout's newest set is put first *)
AppendSetFirst(sets, hevy_set) == <<hevy_set>> \o sets

AppendSet(sets, hevy_set) == Append(sets, hevy_set)

(* the loop of parse_hevy_csv over the data rows; st.keys and st.workouts  *)
(* are workouts_map in insertion order                                     *)
RECURSIVE ParseHevyCsvLoop(_, _)
ParseHevyCsvLoop(st, rows) ==
  IF rows = <<>> \/ st.raised # "none" THEN st
  ELSE LET row == Head(rows) IN
       IF MissingField \in {row.title, row.start_time, row.exercise_title}
       THEN [st EXCEPT !.raised = "AttributeError"]
       ELSE LET title == Strip(row.title)
                start_time_str == Strip(row.start_time)
                exercise_title == Strip(row.exercise_title)
                skip == [st EXCEPT !.errors = @ + 1, !.rows_skipped = @ + 1]
            IN
       IF title = "" \/ start_time_str = "" \/ exercise_title = ""
       THEN ParseHevyCsvLoop(skip, Tail(rows))
       ELSE IF ParseDatetime(start_time_str) = NULL
       THEN ParseHevyCsvLoop(skip, Tail(rows))
       ELSE IF ParseOptionalIntRaises(row.set_index)
       THEN [st EXCEPT !.raised = "ValueError"]
       ELSE IF ParseOptionalInt(row.set_index) = NULL
       THEN ParseHevyCsvLoop(skip, Tail(rows))
       ELSE IF row.set_type = MissingField
       THEN [st EXCEPT !.raised = "AttributeError"]
       ELSE LET hevy_set == [exercise_title |-> exercise_title,
                             set_index |-> ParseOptionalInt(row.set_index)]
                workout_key == <<title, start_time_str>>
                k == KeyIndex(st.keys, workout_key)
                added ==
                  IF k = 0
                  THEN [st EXCEPT
                          !.keys = Append(@, workout_key),
                          !.workouts =
                             Append(@, [title |-> title,
                                        start_time |-> ParseDatetime(start_time_str),
                                        end_time |-> ParseDatetime(row.end_time),
                                        sets |-> <<>>])]
                  ELSE st
                n == IF k = 0 THEN Len(added.workouts) ELSE k
            IN ParseHevyCsvLoop(
                 [added EXCEPT !.workouts[n].sets = AppendSet(@, hevy_set),
                               !.rows_parsed = @ + 1],
                 Tail(rows))

(* the parser's state before the first data row *)
EmptyParse ==
  [keys |-> <<>>, workouts |-> <<>>, errors |-> 0, rows_parsed |-> 0,
   rows_skipped |-> 0, raised |-> "none"]

(* HevyParseResult(): the result before any row is counted *)
EmptyResult ==
  [workouts |-> <<>>, errors |-> 0, rows_parsed |-> 0, rows_skipped |-> 0,
   raised |-> "none"]

(* the HevyParseResult of a document, or the exception that left the call *)
ParseHevyCsvResult(rows) ==
  LET st == ParseHevyCsvLoop(EmptyParse, rows)
  IN IF st.raised # "none"
     THEN [EmptyResult EXCEPT !.raised = st.raised]
     ELSE [EmptyResult EXCEPT !.workouts = st.workouts, !.errors = st.errors,
                              !.rows_parsed = st.rows_parsed,
                              !.rows_skipped = st.rows_skipped]

ParseHevyCsv(rows) ==
  \E r \in {ParseHevyCsvResult(rows)} :
  /\ last' = [NoOp EXCEPT !.op = "parse_hevy_csv", !.arg = rows, !.ret = r,
                          !.errors = r.errors, !.raised = r.raised]
  /\ UNCHANGED <<requests, activities, details, snapshots, insights, promptLogs,
               weeklyPlans, plannedSessions, availability>>

(* ------------------------ Garmin importer ------------------------------ *)
ClassifySport(type_key) ==
  CASE type_key \in {"swimming", "lap_swimming", "open_water_swimming",
                     "pool_swimming"} -> "swimming"
    [] type_key = "strength_training" -> "gym"
    [] type_key \in {"cardio", "running", "cycling", "walking", "hiking",
                     "indoor_cardio", "elliptical"} -> "cardio"
    [] OTHER -> "other"

(* faulty variant: no item ever fails to map *)
MapActivityNeverRaises(raw) == FALSE

(* map_activity raises: _classify_sport calls type_key.lower(), an         *)
(* AttributeError when the typeKey is None                                 *)
MapActivityRaises(raw) == raw.typeKey = NoneTypeKey

MapActivity(id, user_id, raw) ==
  LET has_duration == raw.duration # NULL /\ raw.duration # 0 IN
  [id |-> id, user_id |-> user_id, sport |-> ClassifySport(raw.typeKey),
   title |-> raw.typeKey, start_time |-> raw.start,
   end_time |-> IF has_duration THEN raw.start + raw.duration ELSE NULL,
   duration_minutes |-> IF has_duration THEN raw.duration \div 60 ELSE NULL,
   avg_hr |-> raw.averageHR, max_hr |-> raw.maxHR, calories |-> raw.calories,
   hr_zones |-> raw.heartRateZones,
   training_effect_aerobic |-> raw.aerobicTrainingEffect,
   training_effect_anaerobic |-> raw.anaerobicTrainingEffect,
   data_source |-> "garmin", garmin_activity_id |-> raw.activityId]

(* faulty variant: only rows still tagged garmin are looked at *)
ActivityExistsDeviceRowsOnly(acts, garmin_activity_id) ==
  \E a \in acts : /\ a.garmin_activity_id = garmin_activity_id
                  /\ a.data_source = "garmin"

ActivityExists(acts, garmin_activity_id) ==
  \E a \in acts : a.garmin_activity_id = garmin_activity_id

(* the loop of import_activities over raw_activities *)
RECURSIVE ImportActivitiesLoop(_, _, _)
ImportActivitiesLoop(st, user_id, raws) ==
  IF raws = <<>> THEN st
  ELSE LET raw == Head(raws) IN
       IF raw.activityId = NULL
       THEN ImportActivitiesLoop([st EXCEPT !.errors = @ + 1], user_id, Tail(raws))
       ELSE IF ActivityExists(st.acts, raw.activityId)
       THEN ImportActivitiesLoop([st EXCEPT !.skipped = @ + 1], user_id, Tail(raws))
       ELSE IF MapActivityRaises(raw)
       THEN ImportActivitiesLoop([st EXCEPT !.errors = @ + 1], user_id, Tail(raws))
       ELSE ImportActivitiesLoop(
              [st EXCEPT !.acts = @ \cup {MapActivity(NewId(st.acts), user_id, raw)},
                         !.created = @ + 1],
              user_id, Tail(raws))

ImportActivitiesResult(acts, user_id, raws) ==
  ImportActivitiesLoop([acts |-> acts, created |-> 0, skipped |-> 0, errors |-> 0],
                       user_id, raws)

(* what the claims need of raw_activities: per item, whether it carries   *)
(* an activityId and whether its typeKey is a string                       *)
RawShape(raw_activities) ==
  [i \in DOMAIN raw_activities |->
     [has_id |-> raw_activities[i].activityId # NULL,
      has_type_key |-> raw_activities[i].typeKey # NoneTypeKey]]

ImportActivities(user_id, raw_activities) ==
  \E r \in {ImportActivitiesResult(activities, user_id, raw_activities)} :
  /\ Cardinality(r.acts) <= MaxRows
  /\ activities' = r.acts
  /\ last' = [NoOp EXCEPT !.op = "import_activities", !.user = user_id,
                          !.arg = RawShape(raw_activities),
                          !.created = r.created, !.skipped = r.skipped,
                          !.errors = r.errors]
  /\ UNCHANGED <<requests, details, snapshots, insights, promptLogs,
               weeklyPlans, plannedSessions, availability>>

(* ------------------------ cross-source merger -------------------------- *)
(* hevy_end / garmin_end of _find_overlapping_garmin *)
EffectiveEnd(a) ==
  IF a.end_time # NULL THEN a.end_time
  ELSE IF a.duration_minutes # NULL /\ a.duration_minutes # 0
       THEN a.start_time + 60 * a.duration_minutes
       ELSE a.start_time + OVERLAP_TOLERANCE

(* faulty variant: the overlap start is moved out by the tolerance too *)
OverlapStartWidened(hevy, garmin) ==
  Max(hevy.start_time, garmin.start_time) - OVERLAP_TOLERANCE

OverlapStart(hevy, garmin) == Max(hevy.start_time, garmin.start_time)

OverlapEnd(hevy, garmin) ==
  Min(EffectiveEnd(hevy) + OVERLAP_TOLERANCE,
      EffectiveEnd(garmin) + OVERLAP_TOLERANCE)

OverlapSeconds(hevy, garmin) ==
  OverlapEnd(hevy, garmin) - OverlapStart(hevy, garmin)

(* faulty variant: the first Garmin activity that overlaps is taken, not the best *)
RECURSIVE FindLoopFirstFound(_, _, _, _, _)
FindLoopFirstFound(hevy, garmin_activities, already_matched, best_match, best_overlap) ==
  IF garmin_activities = <<>> THEN best_match
  ELSE LET garmin == Head(garmin_activities)
           rest == Tail(garmin_activities)
       IN IF garmin.id \in already_matched
          THEN FindLoopFirstFound(hevy, rest, already_matched, best_match, best_overlap)
          ELSE IF /\ OverlapStart(hevy, garmin) <= OverlapEnd(hevy, garmin)
                  /\ OverlapSeconds(hevy, garmin) > 0
          THEN garmin.id
          ELSE FindLoopFirstFound(hevy, rest, already_matched, best_match, best_overlap)

(* the loop of _find_overlapping_garmin; the result is the id of best_match *)
RECURSIVE FindLoop(_, _, _, _, _)
FindLoop(hevy, garmin_activities, already_matched, best_match, best_overlap) ==
  IF garmin_activities = <<>> THEN best_match
  ELSE LET garmin == Head(garmin_activities)
           rest == Tail(garmin_activities)
           overlap_seconds == OverlapSeconds(hevy, garmin)
       IN IF garmin.id \in already_matched
          THEN FindLoop(hevy, rest, already_matched, best_match, best_overlap)
          ELSE IF /\ OverlapStart(hevy, garmin) <= OverlapEnd(hevy, garmin)
                  /\ overlap_seconds > best_overlap
          THEN FindLoop(hevy, rest, already_matched, garmin.id, overlap_seconds)
          ELSE FindLoop(hevy, rest, already_matched, best_match, best_overlap)

(* faulty variant: the set of matched Garmin ids is not consulted *)
FindOverlappingGarminAgain(hevy, garmin_activities, already_matched) ==
  FindLoop(hevy, garmin_activities, {}, NULL, 0)

FindOverlappingGarmin(hevy, garmin_activities, already_matched) ==
  FindLoop(hevy, garmin_activities, already_matched, NULL, 0)

(* faulty variant: the overlay leaves out the HR-zone blob *)
MergedActivityNoZones(hevy, match) ==
  [hevy EXCEPT !.avg_hr = match.avg_hr,
               !.max_hr = match.max_hr,
               !.calories = match.calories,
               !.training_effect_aerobic = match.training_effect_aerobic,
               !.training_effect_anaerobic = match.training_effect_anaerobic,
               !.garmin_activity_id = match.garmin_activity_id,
               !.data_source = "merged"]

(* faulty variant: the device duration is always written *)
MergedActivityDeviceDuration(hevy, match) ==
  [hevy EXCEPT !.avg_hr = match.avg_hr,
               !.max_hr = match.max_hr,
               !.calories = match.calories,
               !.hr_zones = match.hr_zones,
               !.training_effect_aerobic = match.training_effect_aerobic,
               !.training_effect_anaerobic = match.training_effect_anaerobic,
               !.garmin_activity_id = match.garmin_activity_id,
               !.data_source = "merged",
               !.duration_minutes = match.duration_minutes]

(* faulty variant: the overlay leaves out the device identifier *)
MergedActivityNoDeviceId(hevy, match) ==
  [hevy EXCEPT !.avg_hr = match.avg_hr,
               !.max_hr = match.max_hr,
               !.calories = match.calories,
               !.hr_zones = match.hr_zones,
               !.training_effect_aerobic = match.training_effect_aerobic,
               !.training_effect_anaerobic = match.training_effect_anaerobic,
               !.data_source = "merged",
               !.duration_minutes =
                  IF @ = NULL /\ match.duration_minutes # NULL
                  THEN match.duration_minutes ELSE @]

(* the Hevy row after the Garmin overlay has been written onto it *)
MergedActivity(hevy, match) ==
  [hevy EXCEPT !.avg_hr = match.avg_hr,
               !.max_hr = match.max_hr,
               !.calories = match.calories,
               !.hr_zones = match.hr_zones,
               !.training_effect_aerobic = match.training_effect_aerobic,
               !.training_effect_anaerobic = match.training_effect_anaerobic,
               !.garmin_activity_id = match.garmin_activity_id,
               !.data_source = "merged",
               !.duration_minutes =
                  IF @ = NULL /\ match.duration_minutes # NULL
                  THEN match.duration_minutes ELSE @]

(* faulty variant: the overlay is written before the Garmin row is deleted and     *)
(* flushed, so the flush carries both rows                                 *)
MergeStepWriteFirst(st, hevy, match) ==
  LET written == (st.acts \ {hevy}) \cup {MergedActivity(hevy, match)} IN
  [acts |-> written \ {match},
   matched |-> st.matched \cup {match.id},
   merged |-> st.merged + 1,
   pairs |-> st.pairs \cup {<<hevy.id, match.id>>},
   flushed |-> Append(st.flushed, written)]

(* faulty variant: the manual row is the one deleted, the device row stays *)
MergeStepDeleteManual(st, hevy, match) ==
  LET after_delete == st.acts \ {hevy} IN
  [acts |-> (after_delete \ {match}) \cup {[match EXCEPT !.data_source = "merged"]},
   matched |-> st.matched \cup {match.id},
   merged |-> st.merged + 1,
   pairs |-> st.pairs \cup {<<hevy.id, match.id>>},
   flushed |-> Append(st.flushed, after_delete)]

(* faulty variant: the matched device row is not deleted *)
MergeStepKeepDevice(st, hevy, match) ==
  [acts |-> (st.acts \ {hevy}) \cup {MergedActivity(hevy, match)},
   matched |-> st.matched \cup {match.id},
   merged |-> st.merged + 1,
   pairs |-> st.pairs \cup {<<hevy.id, match.id>>},
   flushed |-> Append(st.flushed, st.acts)]

(* one matched iteration: delete the Garmin row and flush, then write the   *)
(* overlay onto the Hevy row (flushed by the next flush)                    *)
MergeStep(st, hevy, match) ==
  LET after_delete == st.acts \ {match} IN
  [acts |-> (after_delete \ {hevy}) \cup {MergedActivity(hevy, match)},
   matched |-> st.matched \cup {match.id},
   merged |-> st.merged + 1,
   pairs |-> st.pairs \cup {<<hevy.id, match.id>>},
   flushed |-> Append(st.flushed, after_delete)]

(* the loop of merge_garmin_hevy over hevy_activities *)
RECURSIVE MergeLoop(_, _, _)
MergeLoop(st, hevy_activities, garmin_activities) ==
  IF hevy_activities = <<>> THEN st
  ELSE LET hevy == Head(hevy_activities)
           match_id == FindOverlappingGarmin(hevy, garmin_activities, st.matched)
       IN IF match_id = NULL
          THEN MergeLoop(st, Tail(hevy_activities), garmin_activities)
          ELSE LET match == CHOOSE g \in Range(garmin_activities) : g.id = match_id
               IN MergeLoop(MergeStep(st, hevy, match),
                            Tail(hevy_activities), garmin_activities)

(* faulty variant: rows already tagged merged stay in the manual source set *)
UnmergedGymOrMerged(acts, user_id, source) ==
  {a \in acts : /\ a.user_id = user_id
                /\ a.sport = "gym"
                /\ \/ a.data_source = source
                   \/ source = "hevy" /\ a.data_source = "merged"}

(* faulty variant: the queries leave out the user filter *)
UnmergedGymAnyUser(acts, user_id, source) ==
  {a \in acts : a.sport = "gym" /\ a.data_source = source}

UnmergedGym(acts, user_id, source) ==
  {a \in acts : a.user_id = user_id /\ a.sport = "gym" /\ a.data_source = source}

MergeResult(acts, user_id) ==
  LET hevy_activities == SeqById(UnmergedGym(acts, user_id, "hevy"))
      garmin_activities == SeqById(UnmergedGym(acts, user_id, "garmin"))
      st0 == [acts |-> acts, matched |-> {}, merged |-> 0, pairs |-> {},
              flushed |-> <<>>]
  IN IF hevy_activities = <<>> \/ garmin_activities = <<>> THEN st0
     ELSE LET st == MergeLoop(st0, hevy_activities, garmin_activities)
          IN [st EXCEPT !.flushed = Append(@, st.acts)]

MergeGarminHevy(user_id) ==
  \E r \in {MergeResult(activities, user_id)} :
  /\ activities' = r.acts
  /\ last' = [NoOp EXCEPT !.op = "merge", !.user = user_id,
                          !.merged = r.merged, !.pairs = r.pairs,
                          !.flushed = r.flushed,
                          !.repeat = (last.op = "merge" /\ last.user = user_id),
                          !.prevDone = IF last.op = "merge"
                                       THEN last.merged ELSE 0]
  /\ UNCHANGED <<requests, details, snapshots, insights, promptLogs,
               weeklyPlans, plannedSessions, availability>>

(* ---------------------- health-snapshot importer ---------------------- *)
Days == 1..NumDays

(* snapshots the device mapper may hand to the importer *)
SnapshotInputs ==
  [user_id : Users, snapshot_date : Days, resting_hr : {58, 61}]

SnapshotExists(snaps, user_id, day) ==
  \E s \in snaps : s.user_id = user_id /\ s.snapshot_date = day

(* the column constraint of DailyHealthSnapshot.snapshot_date (unique=True) *)
SnapshotDateTaken(snaps, day) ==
  \E s \in snaps : s.snapshot_date = day

(* import_health_snapshot and the flush of the row it adds *)
ImportHealthSnapshot(snapshot) ==
  /\ IF SnapshotExists(snapshots, snapshot.user_id, snapshot.snapshot_date)
     THEN /\ snapshots' = snapshots
          /\ last' = [NoOp EXCEPT !.op = "import_health_snapshot",
                                  !.user = snapshot.user_id, !.arg = snapshot,
                                  !.ret = FALSE]
     ELSE IF SnapshotDateTaken(snapshots, snapshot.snapshot_date)
     THEN /\ snapshots' = snapshots
          /\ last' = [NoOp EXCEPT !.op = "import_health_snapshot",
                                  !.user = snapshot.user_id, !.arg = snapshot,
                                  !.ret = TRUE, !.raised = "IntegrityError"]
     ELSE /\ snapshots' = snapshots \cup
                 {[id |-> NewId(snapshots), user_id |-> snapshot.user_id,
                   snapshot_date |-> snapshot.snapshot_date,
                   resting_hr |-> snapshot.resting_hr]}
          /\ last' = [NoOp EXCEPT !.op = "import_health_snapshot",
                                  !.user = snapshot.user_id, !.arg = snapshot,
                                  !.ret = TRUE, !.created = 1]
  /\ UNCHANGED <<requests, activities, details, insights, promptLogs,
               weeklyPlans, plannedSessions, availability>>

(* ------------------------ device health fetch -------------------------- *)
(* the per-day accessors of the device client that _fetch_health_for_day   *)
(* calls through _safe_call                                                *)
Accessors ==
  {"get_stats", "get_sleep_data", "get_hrv_data", "get_stress_data",
   "get_body_battery", "get_training_readiness", "get_training_status",
   "get_max_metrics", "get_respiration_data", "get_spo2_data"}

(* which accessors raise on a day: none, any single one, sleep and HRV     *)
(* together, or all of them                                                *)
FailureSets ==
  {F \in SUBSET Accessors : Cardinality(F) <= 1} \cup
  {{"get_sleep_data", "get_hrv_data"}, Accessors}

(* what the device API holds for a day (floats in tenths) *)
DayPayload(day) ==
  [get_stats |-> [restingHeartRate |-> 50 + day, maxHeartRate |-> 150 + day,
                  averageHeartRate |-> 70 + day, totalSteps |-> 8000 + day,
                  intensityMinutes |-> 30 + day],
   get_sleep_data |-> [sleepTimeSeconds |-> 27000 + 60 * day,
                       overall |-> 80 + day, deepSleepSeconds |-> 5400,
                       lightSleepSeconds |-> 14400, remSleepSeconds |-> 6000,
                       awakeSleepSeconds |-> 1200],
   get_hrv_data |-> [lastNightAvg |-> 450 + day, weeklyAvg |-> 440],
   get_stress_data |-> [overallStressLevel |-> 30 + day],
   get_body_battery |-> [charged |-> 80 + day, drained |-> 20 + day],
   get_training_readiness |-> [score |-> 70 + day],
   get_training_status |-> [trainingLoad |-> 3500 + day,
                            trainingStatus |-> "productive"],
   get_max_metrics |-> [vo2MaxValue |-> 520 + day],
   get_respiration_data |-> [avgWakingRespirationValue |-> 140 + day],
   get_spo2_data |-> [averageSpo2 |-> 960 + day]]

(* faulty variant: the accessor's exception leaves _safe_call *)
SafeCallPropagates(accessor, failed) == accessor \in failed

(* _safe_call lets no exception of the accessor out *)
SafeCallRaises(accessor, failed) == FALSE

(* _safe_call: the accessor's payload, or None when it raised *)
SafeCall(accessor, failed, day) ==
  IF accessor \in failed
  THEN [none |-> TRUE]
  ELSE [none |-> FALSE, value |-> DayPayload(day)[accessor]]

(* one mapped column: NULL when the sub-payload is None *)
Field(payload, name) == IF payload.none THEN NULL ELSE payload.value[name]

(* seconds to whole minutes, None for None and for 0 *)
SecondsToMinutes(secs) == IF secs = NULL \/ secs = 0 THEN NULL ELSE secs \div 60

(* map_health_snapshot on the ten sub-payloads (stats is {} when None) *)
MapHealthSnapshot(user_id, snapshot_date, p) ==
  [user_id |-> user_id, snapshot_date |-> snapshot_date,
   resting_hr |-> Field(p["get_stats"], "restingHeartRate"),
   max_hr |-> Field(p["get_stats"], "maxHeartRate"),
   avg_hr |-> Field(p["get_stats"], "averageHeartRate"),
   hrv_status |-> Field(p["get_hrv_data"], "lastNightAvg"),
   hrv_7day_avg |-> Field(p["get_hrv_data"], "weeklyAvg"),
   sleep_duration_minutes |->
      SecondsToMinutes(Field(p["get_sleep_data"], "sleepTimeSeconds")),
   sleep_score |-> Field(p["get_sleep_data"], "overall"),
   sleep_deep_minutes |->
      SecondsToMinutes(Field(p["get_sleep_data"], "deepSleepSeconds")),
   sleep_light_minutes |->
      SecondsToMinutes(Field(p["get_sleep_data"], "lightSleepSeconds")),
   sleep_rem_minutes |->
      SecondsToMinutes(Field(p["get_sleep_data"], "remSleepSeconds")),
   sleep_awake_minutes |->
      SecondsToMinutes(Field(p["get_sleep_data"], "awakeSleepSeconds")),
   body_battery_high |-> Field(p["get_body_battery"], "charged"),
   body_battery_low |-> Field(p["get_body_battery"], "drained"),
   avg_stress |-> Field(p["get_stress_data"], "overallStressLevel"),
   training_readiness |-> Field(p["get_training_readiness"], "score"),
   training_load |-> Field(p["get_training_status"], "trainingLoad"),
   training_status |->
      IF p["get_training_status"].none THEN "<None>"
      ELSE p["get_training_status"].value.trainingStatus,
   vo2_max |-> Field(p["get_max_metrics"], "vo2MaxValue"),
   steps |-> Field(p["get_stats"], "totalSteps"),
   respiration_avg |-> Field(p["get_respiration_data"], "avgWakingRespirationValue"),
   spo2_avg |-> Field(p["get_spo2_data"], "averageSpo2"),
   intensity_minutes |-> Field(p["get_stats"], "intensityMinutes"),
   data_source |-> "garmin"]

(* _fetch_health_for_day: ten guarded accessor calls, then the mapper *)
FetchHealthForDay(user_id, day, failed) ==
  MapHealthSnapshot(user_id, day,
                    [a \in Accessors |-> SafeCall(a, failed, day)])

(* the days of a sync: the first and the last day of the range *)
FetchDays == {1, NumDays}

(* one round of the day loop of fetch_and_import: fetch the day, import    *)
(* the snapshot; an exception of either is recorded as the day's error     *)
FetchAndImportDay(user_id, day, failed) ==
  LET snapshot == FetchHealthForDay(user_id, day, failed)
      summary == [NoOp EXCEPT !.op = "fetch_health_for_day", !.user = user_id,
                              !.arg = [day |-> day, failed |-> failed]]
  IN
  /\ IF \E a \in Accessors : SafeCallRaises(a, failed)
     THEN /\ snapshots' = snapshots
          /\ last' = [summary EXCEPT !.errors = 1, !.raised = "Exception"]
     ELSE IF SnapshotExists(snapshots, user_id, day)
     THEN /\ snapshots' = snapshots
          /\ last' = [summary EXCEPT !.skipped = 1]
     ELSE IF SnapshotDateTaken(snapshots, day)
     THEN /\ snapshots' = snapshots
          /\ last' = [summary EXCEPT !.errors = 1, !.raised = "IntegrityError"]
     ELSE /\ snapshots' = snapshots \cup
                 {[f \in {"id"} \cup DOMAIN snapshot |->
                     IF f = "id" THEN NewId(snapshots) ELSE snapshot[f]]}
          /\ last' = [summary EXCEPT !.created = 1]
  /\ UNCHANGED <<requests, activities, details, insights, promptLogs,
               weeklyPlans, plannedSessions, availability>>

(* --------------------------- coaching engine --------------------------- *)
ReadinessVerdicts == {"go_hard", "moderate", "active_recovery", "rest"}

(* texts the model may answer with: whether a JSON object can be extracted *)
(* and loaded, whether every required field is there, and the verdict      *)
LLMResponses ==
  { [content |-> 1, json |-> TRUE, required |-> TRUE, readiness_verdict |-> "go_hard"],
    [content |-> 2, json |-> TRUE, required |-> TRUE, readiness_verdict |-> "maybe"],
    [content |-> 3, json |-> TRUE, required |-> FALSE, readiness_verdict |-> "rest"],
    [content |-> 4, json |-> FALSE, required |-> FALSE, readiness_verdict |-> "rest"] }

(* a model call returns a response or raises *)
LLMOutcomes ==
  [raises : {FALSE}, response : LLMResponses] \cup
  {[raises |-> TRUE, response |-> CHOOSE r \in LLMResponses : r.content = 4]}

(* parse_response against DailyBriefingResponse: TRUE iff a model is returned *)
ParseResponse(response) ==
  /\ response.json
  /\ response.required
  /\ response.readiness_verdict \in ReadinessVerdicts

(* faulty variant: a response that fails validation ends the invocation *)
CallWithoutRetry(first, retry) ==
  IF first.raises
  THEN [calls |-> 1, response_text |-> NULL, parsed |-> FALSE, error |-> "call failed"]
  ELSE IF ParseResponse(first.response)
  THEN [calls |-> 1, response_text |-> first.response.content, parsed |-> TRUE,
        error |-> "none"]
  ELSE [calls |-> 1, response_text |-> first.response.content, parsed |-> FALSE,
        error |-> "retry also failed"]

(* faulty variant: a first call that raises is retried as well *)
CallWithRetryAfterRaise(first, retry) ==
  IF ~first.raises /\ ParseResponse(first.response)
  THEN [calls |-> 1, response_text |-> first.response.content, parsed |-> TRUE,
        error |-> "none"]
  ELSE IF ~retry.raises /\ ParseResponse(retry.response)
  THEN [calls |-> 2, response_text |-> retry.response.content, parsed |-> TRUE,
        error |-> "none"]
  ELSE [calls |-> 2,
        response_text |-> IF ~retry.raises THEN retry.response.content
                          ELSE IF ~first.raises THEN first.response.content
                          ELSE NULL,
        parsed |-> FALSE, error |-> "retry also failed"]

(* faulty variant: a successful retry keeps the first attempt's error_msg *)
CallWithRetryKeepsError(first, retry) ==
  IF first.raises
  THEN [calls |-> 1, response_text |-> NULL, parsed |-> FALSE, error |-> "call failed"]
  ELSE IF ParseResponse(first.response)
  THEN [calls |-> 1, response_text |-> first.response.content, parsed |-> TRUE,
        error |-> "none"]
  ELSE IF retry.raises
  THEN [calls |-> 2, response_text |-> first.response.content, parsed |-> FALSE,
        error |-> "retry also failed"]
  ELSE IF ParseResponse(retry.response)
  THEN [calls |-> 2, response_text |-> retry.response.content, parsed |-> TRUE,
        error |-> "parse failed"]
  ELSE [calls |-> 2, response_text |-> retry.response.content, parsed |-> FALSE,
        error |-> "retry also failed"]

(* the call / retry block: calls made, the response kept, parsed, error_msg *)
CallWithRetry(first, retry) ==
  IF first.raises
  THEN [calls |-> 1, response_text |-> NULL, parsed |-> FALSE, error |-> "call failed"]
  ELSE IF ParseResponse(first.response)
  THEN [calls |-> 1, response_text |-> first.response.content, parsed |-> TRUE,
        error |-> "none"]
  ELSE IF retry.raises
  THEN [calls |-> 2, response_text |-> first.response.content, parsed |-> FALSE,
        error |-> "retry also failed"]
  ELSE IF ParseResponse(retry.response)
  THEN [calls |-> 2, response_text |-> retry.response.content, parsed |-> TRUE,
        error |-> "none"]
  ELSE [calls |-> 2, response_text |-> retry.response.content, parsed |-> FALSE,
        error |-> "retry also failed"]

InsightExists(ins, user_id, day, type) ==
  \E i \in ins : i.user_id = user_id /\ i.insight_date = day /\ i.insight_type = type

(* faulty variant: every row is written as a success *)
PromptLogRowAlwaysSuccess(logs, type, r) ==
  [id |-> NewId(logs), prompt_type |-> type, response_text |-> r.response_text,
   success |-> TRUE, error |-> r.error]

PromptLogRow(logs, type, r) ==
  [id |-> NewId(logs), prompt_type |-> type, response_text |-> r.response_text,
   success |-> r.parsed, error |-> r.error]

GenerateDailyBriefing(user_id, today, first, retry) ==
  /\ IF InsightExists(insights, user_id, today, "daily_briefing")
     THEN /\ last' = [NoOp EXCEPT !.op = "daily_briefing", !.user = user_id,
                                  !.arg = [today |-> today, first |-> first,
                                            retry |-> retry],
                                  !.raised = "ValueError",
                                  !.stage = "idempotency"]
          /\ UNCHANGED <<insights, promptLogs>>
     ELSE LET r == CallWithRetry(first, retry) IN
          /\ Cardinality(promptLogs) < MaxPromptLogs
          /\ promptLogs' = promptLogs \cup {PromptLogRow(promptLogs, "daily_briefing", r)}
          /\ insights' = IF r.parsed
                         THEN insights \cup
                              {[id |-> NewId(insights), user_id |-> user_id,
                                insight_date |-> today,
                                insight_type |-> "daily_briefing",
                                activity_id |-> NULL]}
                         ELSE insights
          /\ last' = [NoOp EXCEPT !.op = "daily_briefing", !.user = user_id,
                                  !.arg = [today |-> today, first |-> first,
                                            retry |-> retry],
                                  !.calls = r.calls,
                                  !.created = IF r.parsed THEN 1 ELSE 0,
                                  !.raised = IF r.parsed THEN "none" ELSE "RuntimeError",
                                  !.stage = IF r.parsed THEN "done" ELSE "model"]
  /\ UNCHANGED <<requests, activities, details, snapshots,
               weeklyPlans, plannedSessions, availability>>

(* ------------------- overlapping daily briefings ----------------------- *)
(* generate_daily_briefing taken one suspension point at a time, for       *)
(* invocations that each hold their own session: a session's added rows    *)
(* are seen by the other session only once it has committed                *)
Procs == {1, 2}

IdleRequest ==
  [pc |-> "idle", user |-> NULL, today |-> NULL, calls |-> <<>>,
   result |-> [calls |-> 0, response_text |-> "<None>", parsed |-> FALSE,
               error |-> "none"]]

InFlight == {p \in Procs : requests[p].pc # "idle"}

(* the invocation is entered; nothing has been read yet *)
BriefingBegin(p, user_id, today, first, retry) ==
  /\ requests[p].pc = "idle"
  /\ Cardinality(promptLogs) + Cardinality(InFlight) < MaxPromptLogs
  /\ requests' = [requests EXCEPT ![p] =
                    [IdleRequest EXCEPT !.pc = "check", !.user = user_id,
                                        !.today = today,
                                        !.calls = <<first, retry>>]]
  /\ UNCHANGED <<activities, details, snapshots, insights, promptLogs, last,
                 weeklyPlans, plannedSessions, availability>>

(* the existence query, answered from the committed rows;               *)
(* scalar_one_or_none() raises when the query returns more than one row    *)
BriefingCheck(p) ==
  LET rq == requests[p]
      existing == {i \in insights : /\ i.user_id = rq.user
                                    /\ i.insight_date = rq.today
                                    /\ i.insight_type = "daily_briefing"}
  IN
  /\ rq.pc = "check"
  /\ IF InsightExists(insights, rq.user, rq.today, "daily_briefing")
     THEN /\ requests' = [requests EXCEPT ![p] = IdleRequest]
          /\ last' = [NoOp EXCEPT !.op = "daily_briefing", !.user = rq.user,
                                  !.arg = [today |-> rq.today,
                                           first |-> rq.calls[1],
                                           retry |-> rq.calls[2]],
                                  !.raised = IF Cardinality(existing) > 1
                                             THEN "MultipleResultsFound"
                                             ELSE "ValueError",
                                  !.stage = "idempotency"]
     ELSE /\ requests' = [requests EXCEPT ![p].pc = "context"]
          /\ last' = last
  /\ UNCHANGED <<activities, details, snapshots, insights, promptLogs,
                 weeklyPlans, plannedSessions, availability>>

(* the three context queries; they read and write nothing the model keeps *)
BriefingContext(p) ==
  /\ requests[p].pc = "context"
  /\ requests' = [requests EXCEPT ![p].pc = "call"]
  /\ UNCHANGED <<activities, details, snapshots, insights, promptLogs, last,
                 weeklyPlans, plannedSessions, availability>>

(* the model call and its retry; the log row and the insight are added to *)
(* the invocation's own session                                            *)
BriefingCall(p) ==
  LET rq == requests[p] IN
  /\ rq.pc = "call"
  /\ requests' = [requests EXCEPT ![p].pc = "commit",
                                  ![p].result = CallWithRetry(rq.calls[1], rq.calls[2])]
  /\ UNCHANGED <<activities, details, snapshots, insights, promptLogs, last,
                 weeklyPlans, plannedSessions, availability>>

(* session.commit(): the session's rows reach the tables *)
BriefingCommit(p) ==
  LET rq == requests[p]
      r == rq.result
  IN
  /\ rq.pc = "commit"
  /\ promptLogs' = promptLogs \cup {PromptLogRow(promptLogs, "daily_briefing", r)}
  /\ insights' = IF r.parsed
                 THEN insights \cup
                      {[id |-> NewId(insights), user_id |-> rq.user,
                        insight_date |-> rq.today,
                        insight_type |-> "daily_briefing",
                        activity_id |-> NULL]}
                 ELSE insights
  /\ requests' = [requests EXCEPT ![p] = IdleRequest]
  /\ last' = [NoOp EXCEPT !.op = "daily_briefing", !.user = rq.user,
                          !.arg = [today |-> rq.today, first |-> rq.calls[1],
                                   retry |-> rq.calls[2]],
                          !.calls = r.calls,
                          !.created = IF r.parsed THEN 1 ELSE 0,
                          !.raised = IF r.parsed THEN "none" ELSE "RuntimeError",
                          !.stage = IF r.parsed THEN "done" ELSE "model"]
  /\ UNCHANGED <<activities, details, snapshots,
                 weeklyPlans, plannedSessions, availability>>

(* ------------------------------ calendar ------------------------------- *)
(* a date is a day number, day 1 being a Monday; a datetime is the seconds *)
(* since the start of day 1                                                *)
SecondsPerDay == 86400

(* faulty variant: every date passes for a Monday *)
WeekdayAlwaysMonday(day) == 0

Weekday(day) == (day - 1) % 7

DateOf(start_time) == 1 + (start_time \div SecondsPerDay)

(* --------------------------- availability ------------------------------ *)
(* slot lists the availability endpoint may be given *)
SlotLists ==
  { <<>>, <<[day_of_week |-> 0, preferred_sport |-> "gym"]>> }

RECURSIVE AddSlots(_, _, _, _)
AddSlots(rows, user_id, week_start, slots) ==
  IF slots = <<>> THEN rows
  ELSE AddSlots(rows \cup {[id |-> NewId(rows), user_id |-> user_id,
                            week_start |-> week_start,
                            day_of_week |-> Head(slots).day_of_week,
                            preferred_sport |-> Head(slots).preferred_sport]},
                user_id, week_start, Tail(slots))

(* POST /api/availability: replaces the slots of the week *)
SetAvailability(week_start, slots) ==
  /\ IF Weekday(week_start) # 0
     THEN /\ availability' = availability
          /\ last' = [NoOp EXCEPT !.op = "set_availability", !.user = 1,
                                  !.arg = [week_start |-> week_start, slots |-> slots],
                                  !.raised = "HTTPException"]
     ELSE /\ availability' =
               AddSlots({a \in availability :
                            ~(a.user_id = 1 /\ a.week_start = week_start)},
                        1, week_start, slots)
          /\ last' = [NoOp EXCEPT !.op = "set_availability", !.user = 1,
                                  !.arg = [week_start |-> week_start, slots |-> slots],
                                  !.created = Len(slots)]
  /\ UNCHANGED <<requests, activities, details, snapshots, insights, promptLogs,
                 weeklyPlans, plannedSessions>>

(* faulty variant: the slots of the week are not looked up *)
GetAvailabilityAssumed(rows, user_id, week_start) ==
  {[id |-> 0, user_id |-> user_id, week_start |-> week_start,
    day_of_week |-> 0, preferred_sport |-> "gym"]}

GetAvailabilityForWeek(rows, user_id, week_start) ==
  {a \in rows : a.user_id = user_id /\ a.week_start = week_start}

(* ---------------------- weekly plan generation ------------------------- *)
(* texts the model may answer a weekly-plan prompt with *)
WeeklyPlanResponses ==
  { [content |-> 11, json |-> TRUE, required |-> TRUE,
     sessions |-> <<[day_of_week |-> 0, sport |-> "gym"]>>],
    [content |-> 12, json |-> TRUE, required |-> TRUE,
     sessions |-> <<[day_of_week |-> 0, sport |-> "gym"],
                    [day_of_week |-> 0, sport |-> "gym"]>>],
    [content |-> 13, json |-> TRUE, required |-> TRUE, sessions |-> <<>>],
    [content |-> 14, json |-> TRUE, required |-> TRUE,
     sessions |-> <<[day_of_week |-> 7, sport |-> "gym"]>>],
    [content |-> 15, json |-> TRUE, required |-> TRUE,
     sessions |-> <<[day_of_week |-> 0, sport |-> "gym"],
                    [day_of_week |-> 0, sport |-> "cardio"],
                    [day_of_week |-> 1, sport |-> "gym"]>>] }

WeeklyPlanText(content) == CHOOSE r \in WeeklyPlanResponses : r.content = content

(* first and retry outcomes of the weekly-plan call *)
WeeklyPlanCalls ==
  LET ok(c) == [raises |-> FALSE, response |-> WeeklyPlanText(c)]
      fail == [raises |-> TRUE, response |-> WeeklyPlanText(13)]
  IN { <<ok(11), ok(11)>>, <<ok(12), ok(11)>>, <<ok(13), ok(11)>>,
       <<ok(14), ok(13)>>, <<ok(13), fail>>, <<fail, ok(11)>> }

(* faulty variant: the session list is not validated *)
ParseWeeklyPlanAnySessions(response) ==
  response.json /\ response.required

(* parse_response against WeeklyPlanResponse: TRUE iff a model is returned *)
ParseWeeklyPlan(response) ==
  /\ response.json
  /\ response.required
  /\ Len(response.sessions) >= 1
  /\ \A i \in DOMAIN response.sessions :
        response.sessions[i].day_of_week \in 0..6

(* the call / retry block of generate_weekly_plan *)
WeeklyCallWithRetry(first, retry) ==
  IF first.raises
  THEN [calls |-> 1, response_text |-> NULL, parsed |-> FALSE, error |-> "call failed"]
  ELSE IF ParseWeeklyPlan(first.response)
  THEN [calls |-> 1, response_text |-> first.response.content, parsed |-> TRUE,
        error |-> "none"]
  ELSE IF retry.raises
  THEN [calls |-> 2, response_text |-> first.response.content, parsed |-> FALSE,
        error |-> "retry also failed"]
  ELSE IF ParseWeeklyPlan(retry.response)
  THEN [calls |-> 2, response_text |-> retry.response.content, parsed |-> TRUE,
        error |-> "none"]
  ELSE [calls |-> 2, response_text |-> retry.response.content, parsed |-> FALSE,
        error |-> "retry also failed"]

(* faulty variant: an existing plan is never found *)
ActivePlanNeverExists(plans, user_id, week_start) == FALSE

ActivePlanExists(plans, user_id, week_start) ==
  \E p \in plans : /\ p.user_id = user_id /\ p.week_start = week_start
                   /\ p.status = "active"

(* the PlannedSession rows added for parsed.sessions *)
RECURSIVE AddSessions(_, _, _)
AddSessions(rows, plan_id, sessions) ==
  IF sessions = <<>> THEN rows
  ELSE AddSessions(rows \cup {[id |-> NewId(rows), plan_id |-> plan_id,
                               day_of_week |-> Head(sessions).day_of_week,
                               sport |-> Head(sessions).sport,
                               completed |-> FALSE, activity_id |-> NULL]},
                   plan_id, Tail(sessions))

GenerateWeeklyPlan(user_id, week_start, first, retry) ==
  LET arg == [week_start |-> week_start, first |-> first, retry |-> retry]
      stop(stage) == [NoOp EXCEPT !.op = "weekly_plan", !.user = user_id,
                                  !.arg = arg, !.raised = "ValueError",
                                  !.stage = stage]
  IN
  /\ IF Weekday(week_start) # 0
     THEN /\ last' = stop("arguments")
          /\ UNCHANGED <<promptLogs, weeklyPlans, plannedSessions>>
     ELSE IF ActivePlanExists(weeklyPlans, user_id, week_start)
     THEN /\ last' = stop("idempotency")
          /\ UNCHANGED <<promptLogs, weeklyPlans, plannedSessions>>
     ELSE IF GetAvailabilityForWeek(availability, user_id, week_start) = {}
     THEN /\ last' = stop("context")
          /\ UNCHANGED <<promptLogs, weeklyPlans, plannedSessions>>
     ELSE LET r == WeeklyCallWithRetry(first, retry)
              plan_id == NewId(weeklyPlans)
              sessions == IF r.parsed
                          THEN WeeklyPlanText(r.response_text).sessions
                          ELSE <<>>
          IN
          /\ Cardinality(promptLogs) < MaxPromptLogs
          /\ promptLogs' = promptLogs \cup {PromptLogRow(promptLogs, "weekly_plan", r)}
          /\ weeklyPlans' = IF r.parsed
                            THEN weeklyPlans \cup
                                 {[id |-> plan_id, user_id |-> user_id,
                                   week_start |-> week_start, status |-> "active"]}
                            ELSE weeklyPlans
          /\ plannedSessions' = AddSessions(plannedSessions, plan_id, sessions)
          /\ last' = [NoOp EXCEPT !.op = "weekly_plan", !.user = user_id,
                                  !.arg = arg, !.calls = r.calls,
                                  !.created = IF r.parsed THEN 1 ELSE 0,
                                  !.raised = IF r.parsed THEN "none" ELSE "RuntimeError",
                                  !.stage = IF r.parsed THEN "done" ELSE "model"]
  /\ UNCHANGED <<requests, activities, details, snapshots, insights, availability>>

(* --------------------- post-workout analysis --------------------------- *)
(* texts the model may answer a post-workout prompt with: a complete       *)
(* analysis, one that lacks required fields, and one that is not JSON      *)
PostWorkoutResponses ==
  { [content |-> 21, json |-> TRUE, required |-> TRUE],
    [content |-> 22, json |-> TRUE, required |-> FALSE],
    [content |-> 23, json |-> FALSE, required |-> FALSE] }

PostWorkoutText(content) == CHOOSE r \in PostWorkoutResponses : r.content = content

(* first and retry outcomes of the post-workout call *)
PostWorkoutCalls ==
  LET ok(c) == [raises |-> FALSE, response |-> PostWorkoutText(c)]
      fail == [raises |-> TRUE, response |-> PostWorkoutText(23)]
  IN { <<ok(21), ok(21)>>, <<ok(22), ok(21)>>, <<ok(23), ok(22)>>,
       <<fail, ok(21)>> }

(* parse_response against PostWorkoutResponse: TRUE iff a model is returned *)
ParsePostWorkout(response) == response.json /\ response.required

(* the call / retry block of generate_post_workout_analysis *)
PostWorkoutCallWithRetry(first, retry) ==
  IF first.raises
  THEN [calls |-> 1, response_text |-> NULL, parsed |-> FALSE, error |-> "call failed"]
  ELSE IF ParsePostWorkout(first.response)
  THEN [calls |-> 1, response_text |-> first.response.content, parsed |-> TRUE,
        error |-> "none"]
  ELSE IF retry.raises
  THEN [calls |-> 2, response_text |-> first.response.content, parsed |-> FALSE,
        error |-> "retry also failed"]
  ELSE IF ParsePostWorkout(retry.response)
  THEN [calls |-> 2, response_text |-> retry.response.content, parsed |-> TRUE,
        error |-> "none"]
  ELSE [calls |-> 2, response_text |-> retry.response.content, parsed |-> FALSE,
        error |-> "retry also failed"]

(* faulty variant: an existing analysis is never found *)
AnalysisNeverExists(ins, user_id, activity_id) == FALSE

AnalysisExists(ins, user_id, activity_id) ==
  \E i \in ins : /\ i.user_id = user_id /\ i.activity_id = activity_id
                 /\ i.insight_type = "post_workout"

(* find_matching_planned_session: the sessions of the user's active plan   *)
(* for the activity's week that have the activity's weekday and sport;     *)
(* scalar_one_or_none raises when there are several                        *)
(* faulty variant: the session query leaves out the sport *)
MatchingSessionsAnySport(plans, sessions, activity, user_id) ==
  LET activity_date == DateOf(activity.start_time)
      day_of_week == Weekday(activity_date)
      week_start == activity_date - day_of_week
  IN {ps \in sessions :
        /\ \E p \in plans : /\ p.user_id = user_id /\ p.week_start = week_start
                            /\ p.status = "active" /\ p.id = ps.plan_id
        /\ ps.day_of_week = day_of_week}

MatchingSessions(plans, sessions, activity, user_id) ==
  LET activity_date == DateOf(activity.start_time)
      day_of_week == Weekday(activity_date)
      week_start == activity_date - day_of_week
  IN {ps \in sessions :
        /\ \E p \in plans : /\ p.user_id = user_id /\ p.week_start = week_start
                            /\ p.status = "active" /\ p.id = ps.plan_id
        /\ ps.day_of_week = day_of_week
        /\ ps.sport = activity.sport}

FindMatchingPlannedSession(plans, sessions, activity, user_id) ==
  LET found == MatchingSessions(plans, sessions, activity, user_id) IN
  IF found = {} THEN [raises |-> FALSE, id |-> NULL]
  ELSE IF Cardinality(found) = 1
  THEN [raises |-> FALSE, id |-> (CHOOSE ps \in found : TRUE).id]
  ELSE [raises |-> TRUE, id |-> NULL]

LinkActivityToPlannedSession(sessions, activity_id, planned_session_id) ==
  {IF ps.id = planned_session_id
   THEN [ps EXCEPT !.completed = TRUE, !.activity_id = activity_id]
   ELSE ps : ps \in sessions}

(* faulty variant: an activity that is not stored is taken to be there *)
GetActivityAssumed(acts, activity_id, user_id) ==
  IF \E a \in acts : a.id = activity_id /\ a.user_id = user_id
  THEN {a \in acts : a.id = activity_id /\ a.user_id = user_id}
  ELSE {[id |-> activity_id, user_id |-> user_id, sport |-> "other",
         start_time |-> 0]}

(* the row query of get_activity_with_details *)
GetActivity(acts, activity_id, user_id) ==
  {a \in acts : a.id = activity_id /\ a.user_id = user_id}

GeneratePostWorkoutAnalysis(user_id, activity_id, first, retry) ==
  LET arg == [activity_id |-> activity_id, first |-> first, retry |-> retry]
      stop(exc, stage) == [NoOp EXCEPT !.op = "post_workout", !.user = user_id,
                                       !.arg = arg, !.raised = exc,
                                       !.stage = stage]
      found == GetActivity(activities, activity_id, user_id)
  IN
  /\ IF AnalysisExists(insights, user_id, activity_id)
     THEN /\ last' = stop("ValueError", "idempotency")
          /\ UNCHANGED <<insights, promptLogs, plannedSessions>>
     ELSE IF found = {}
     THEN /\ last' = stop("ValueError", "context")
          /\ UNCHANGED <<insights, promptLogs, plannedSessions>>
     ELSE LET activity == CHOOSE a \in found : TRUE
              planned_session ==
                FindMatchingPlannedSession(weeklyPlans, plannedSessions,
                                           activity, user_id)
              r == PostWorkoutCallWithRetry(first, retry)
          IN
          IF planned_session.raises
          THEN /\ last' = stop("MultipleResultsFound", "context")
               /\ UNCHANGED <<insights, promptLogs, plannedSessions>>
          ELSE
          /\ Cardinality(promptLogs) < MaxPromptLogs
          /\ promptLogs' = promptLogs \cup {PromptLogRow(promptLogs, "post_workout", r)}
          /\ plannedSessions' =
               IF r.parsed /\ planned_session.id # NULL
               THEN LinkActivityToPlannedSession(plannedSessions, activity_id,
                                                 planned_session.id)
               ELSE plannedSessions
          /\ insights' = IF r.parsed
                         THEN insights \cup
                              {[id |-> NewId(insights), user_id |-> user_id,
                                insight_date |-> DateOf(activity.start_time),
                                insight_type |-> "post_workout",
                                activity_id |-> activity_id]}
                         ELSE insights
          /\ last' = [NoOp EXCEPT !.op = "post_workout", !.user = user_id,
                                  !.arg = arg, !.calls = r.calls,
                                  !.created = IF r.parsed THEN 1 ELSE 0,
                                  !.raised = IF r.parsed THEN "none" ELSE "RuntimeError",
                                  !.stage = IF r.parsed THEN "done" ELSE "model"]
  /\ UNCHANGED <<requests, activities, details, snapshots, weeklyPlans, availability>>

(* PATCH /api/plans/{plan_id}/sessions/{session_id} *)
MarkSessionCompleted(plan_id, session_id, activity_id) ==
  LET arg == [plan_id |-> plan_id, session_id |-> session_id,
              activity_id |-> activity_id]
      planned == {ps \in plannedSessions : ps.id = session_id /\ ps.plan_id = plan_id}
      plan == {p \in weeklyPlans : p.id = plan_id /\ p.user_id = 1}
  IN
  /\ IF planned = {} \/ plan = {}
     THEN /\ plannedSessions' = plannedSessions
          /\ last' = [NoOp EXCEPT !.op = "mark_session_completed", !.user = 1,
                                  !.arg = arg, !.raised = "HTTPException"]
     ELSE /\ plannedSessions' =
               {IF ps \in planned
                THEN [ps EXCEPT !.completed = TRUE,
                                !.activity_id = IF activity_id # NULL
                                                THEN activity_id ELSE @]
                ELSE ps : ps \in plannedSessions}
          /\ last' = [NoOp EXCEPT !.op = "mark_session_completed", !.user = 1,
                                  !.arg = arg, !.ret = TRUE]
  /\ UNCHANGED <<requests, activities, details, snapshots, insights, promptLogs,
                 weeklyPlans, availability>>

(* --------------------------- source routes ----------------------------- *)
(* routes/sources.py: DEFAULT_USER_ID *)
DEFAULT_USER_ID == 1

(* device batches of a sync: activities 101 and 103, whose overlaps with   *)
(* the CSV workouts all differ                                             *)
RouteBatches ==
  SeqsUpTo({r \in RawActivities : r.activityId \in {101, 103}}, MaxBatch)

(* the day loop of fetch_and_import with every accessor answering *)
RECURSIVE ImportSnapshotsForDays(_, _, _)
ImportSnapshotsForDays(snaps, user_id, days) ==
  IF days = {} THEN snaps
  ELSE LET day == CHOOSE d \in days : \A e \in days : d <= e
           snapshot == FetchHealthForDay(user_id, day, {})
           stored ==
             IF SnapshotExists(snaps, user_id, day) \/ SnapshotDateTaken(snaps, day)
             THEN snaps
             ELSE snaps \cup
                  {[f \in {"id"} \cup DOMAIN snapshot |->
                      IF f = "id" THEN NewId(snaps) ELSE snapshot[f]]}
       IN ImportSnapshotsForDays(stored, user_id, days \ {day})

(* POST /api/sources/import/hevy: import the parsed workouts, then merge *)
ImportHevyCsv(parse_result) ==
  \E r \in {ImportHevyResult(activities, details, DEFAULT_USER_ID, parse_result)} :
  \E m \in {MergeResult(r.acts, DEFAULT_USER_ID)} :
  /\ Cardinality(r.acts) <= MaxRows
  /\ activities' = m.acts
  /\ details' = r.dets
  /\ last' = [NoOp EXCEPT !.op = "import_hevy_csv", !.user = DEFAULT_USER_ID,
                          !.arg = parse_result,
                          !.created = r.created, !.skipped = r.skipped,
                          !.merged = m.merged, !.pairs = m.pairs]
  /\ UNCHANGED <<requests, snapshots, insights, promptLogs,
               weeklyPlans, plannedSessions, availability>>

(* POST /api/sources/sync/garmin: authenticate, import the days' health    *)
(* snapshots and the activities the device API returns, then merge         *)
SyncGarmin(authenticated, api_raises, raw_activities) ==
  LET arg == [authenticated |-> authenticated, api_raises |-> api_raises,
              raw_activities |-> raw_activities]
  IN
  IF ~authenticated
  THEN /\ last' = [NoOp EXCEPT !.op = "sync_garmin", !.user = DEFAULT_USER_ID,
                               !.arg = arg, !.raised = "HTTPException"]
       /\ UNCHANGED <<requests, activities, details, snapshots, insights,
                      promptLogs, weeklyPlans, plannedSessions, availability>>
  ELSE
  \E r \in {IF api_raises
            THEN [acts |-> activities, created |-> 0, skipped |-> 0, errors |-> 1]
            ELSE ImportActivitiesResult(activities, DEFAULT_USER_ID,
                                        raw_activities)} :
  \E m \in {MergeResult(r.acts, DEFAULT_USER_ID)} :
  /\ Cardinality(r.acts) <= MaxRows
  /\ snapshots' = ImportSnapshotsForDays(snapshots, DEFAULT_USER_ID, FetchDays)
  /\ activities' = m.acts
  /\ last' = [NoOp EXCEPT !.op = "sync_garmin", !.user = DEFAULT_USER_ID,
                          !.arg = arg,
                          !.created = r.created, !.skipped = r.skipped,
                          !.errors = r.errors,
                          !.merged = m.merged, !.pairs = m.pairs]
  /\ UNCHANGED <<requests, details, insights, promptLogs,
               weeklyPlans, plannedSessions, availability>>

(* POST /api/sources/merge *)
MergeActivities == MergeGarminHevy(DEFAULT_USER_ID)

(* ----------------------------- Spec ------------------------------------ *)
Init ==
  /\ activities = {}
  /\ details = {}
  /\ snapshots = {}
  /\ insights = {}
  /\ promptLogs = {}
  /\ weeklyPlans = {}
  /\ plannedSessions = {}
  /\ availability = {}
  /\ requests = [p \in Procs |-> IdleRequest]
  /\ last = NoOp

(* importers and merger *)
Next ==
  \/ \E u \in Users : \E p \in ParseResults(u) : ImportHevyWorkouts(u, p)
  \/ \E u \in Users : \E b \in RawBatches(u) : ImportActivities(u, b)
  \/ \E u \in Users : MergeGarminHevy(u)

Spec == Init /\ [][Next]_vars

(* health-snapshot importer *)
HealthNext == \E s \in SnapshotInputs : ImportHealthSnapshot(s)

HealthSpec == Init /\ [][HealthNext]_vars

(* coaching engine *)
EngineNext ==
  \E u \in Users, d \in Days, first \in LLMOutcomes, retry \in LLMOutcomes :
     GenerateDailyBriefing(u, d, first, retry)

EngineSpec == Init /\ [][EngineNext]_vars

(* coaching engine with plans, availability and stored activities *)
DailyCalls ==
  LET ok(c) == [raises |-> FALSE, response |-> CHOOSE r \in LLMResponses : r.content = c]
      fail == [raises |-> TRUE, response |-> CHOOSE r \in LLMResponses : r.content = 4]
  IN { <<ok(1), ok(1)>>, <<ok(2), ok(1)>>, <<ok(3), ok(4)>>, <<fail, ok(1)>> }

(* the device batch synced before workouts are analysed: two gym sessions  *)
(* of the same Monday                                                      *)
CoachBatches ==
  { <<CHOOSE r \in RawActivities : r.activityId = 101,
      CHOOSE r \in RawActivities : r.activityId = 102>> }

(* the ids the two synced rows get, and an id no row has *)
ActivityIds == {1, 2, 3}

CoachNext ==
  \/ \E b \in CoachBatches : ImportActivities(1, b)
  \/ \E d \in Days, slots \in SlotLists : SetAvailability(d, slots)
  \/ \E d \in Days, c \in DailyCalls : GenerateDailyBriefing(1, d, c[1], c[2])
  \/ \E d \in Days, c \in WeeklyPlanCalls : GenerateWeeklyPlan(1, d, c[1], c[2])
  \/ \E a \in ActivityIds, c \in PostWorkoutCalls :
        GeneratePostWorkoutAnalysis(1, a, c[1], c[2])
  \/ \E ps \in {1, 2}, a \in {NULL, 2} : MarkSessionCompleted(1, ps, a)

CoachSpec == Init /\ [][CoachNext]_vars

(* the CSV parser on its own: every document of the catalogue is parsed *)
ParserNext == \E rows \in CsvDocuments : ParseHevyCsv(rows)

ParserSpec == Init /\ [][ParserNext]_vars

(* the device health fetch of the sync route's user, for the first and    *)
(* the last day of the range                                               *)
FetchNext ==
  \E d \in FetchDays, failed \in FailureSets : FetchAndImportDay(1, d, failed)

FetchSpec == Init /\ [][FetchNext]_vars

(* the three source routes of the single user *)
RouteNext ==
  \/ \E p \in ParseResults(DEFAULT_USER_ID) : ImportHevyCsv(p)
  \/ \E authenticated \in BOOLEAN, api_raises \in BOOLEAN, b \in RouteBatches :
        SyncGarmin(authenticated, api_raises, b)
  \/ MergeActivities

RouteSpec == Init /\ [][RouteNext]_vars

(* two invocations of the daily briefing, overlapping at any suspension    *)
(* point                                                                   *)
ConcurrentNext ==
  \/ \E p \in Procs, u \in Users, d \in Days, c \in DailyCalls :
        BriefingBegin(p, u, d, c[1], c[2])
  \/ \E p \in Procs : BriefingCheck(p)
  \/ \E p \in Procs : BriefingContext(p)
  \/ \E p \in Procs : BriefingCall(p)
  \/ \E p \in Procs : BriefingCommit(p)

ConcurrentSpec == Init /\ [][ConcurrentNext]_vars

(* plans whose sessions differ in weekday and sport: a Monday gym session, *)
(* a Monday cardio session and a Tuesday gym session; a plan with one      *)
(* Monday gym session; a plan with two Monday gym sessions; and a call     *)
(* that fails                                                              *)
LinkPlanCalls ==
  LET ok(c) == [raises |-> FALSE, response |-> WeeklyPlanText(c)]
      fail == [raises |-> TRUE, response |-> WeeklyPlanText(13)]
  IN { <<ok(15), ok(15)>>, <<ok(11), ok(11)>>, <<ok(12), ok(15)>>,
       <<fail, ok(15)>> }

(* the synced batch: a gym session and a run of the same Monday *)
LinkBatches ==
  { <<CHOOSE r \in RawActivities : r.activityId = 101,
      CHOOSE r \in RawActivities : r.activityId = 104>> }

(* the days a week may be planned from: those of the activities' week and *)
(* the Monday after it                                                     *)
LinkWeeks == Days \cup {1 + 7}

(* planning, sync and post-workout analysis of the routes' user, who sets  *)
(* the availability of one week, once                                      *)
LinkNext ==
  \/ \E b \in LinkBatches : ImportActivities(1, b)
  \/ \E d \in LinkWeeks, slots \in SlotLists :
        availability = {} /\ SetAvailability(d, slots)
  \/ \E d \in LinkWeeks, c \in LinkPlanCalls :
        GenerateWeeklyPlan(1, d, c[1], c[2])
  \/ \E a \in ActivityIds, c \in PostWorkoutCalls :
        GeneratePostWorkoutAnalysis(1, a, c[1], c[2])
  \/ \E ps \in {1, 2}, a \in {NULL, 2} : MarkSessionCompleted(1, ps, a)

LinkSpec == Init /\ [][LinkNext]_vars

(* device gym activities with and without a duration: 101 spans the first  *)
(* workout, 103 the second, and 106 starts with the second and reports no  *)
(* duration                                                                *)
DurationRawActivities ==
  {r \in RawActivities : r.activityId \in {101, 103}} \cup
  { [activityId |-> 106, typeKey |-> "strength_training", start |-> 5400,
     duration |-> NULL, averageHR |-> 122, maxHR |-> 150, calories |-> 180,
     heartRateZones |-> NULL, aerobicTrainingEffect |-> 21,
     anaerobicTrainingEffect |-> 9] }

(* CSV import, device sync and merge of one user *)
DurationNext ==
  \/ \E p \in ParseResults(1) : ImportHevyWorkouts(1, p)
  \/ \E b \in SeqsUpTo(DurationRawActivities, MaxBatch) : ImportActivities(1, b)
  \/ MergeGarminHevy(1)

DurationSpec == Init /\ [][DurationNext]_vars

(* ============================== claims ================================= *)

(* C1: a merge_garmin_hevy run directly after another run for the same     *)
(* user reports merged = 0 and leaves every Activity row and every         *)
(* GymWorkoutDetail row as the first run left them.                        *)
C1_MergeIdempotent ==
  [][ (last.op = "merge" /\ last'.op = "merge" /\ last'.user = last.user)
      => (last'.merged = 0 /\ activities' = activities /\ details' = details) ]_vars

(* a second run has followed a run that merged something, with an unmerged *)
(* device gym activity of that user still stored                           *)
C1_Witness ==
  /\ last.op = "merge" /\ last.repeat /\ last.prevDone >= 1
  /\ UnmergedGym(activities, last.user, "garmin") # {}

(* C2: in every state, and in every flushed state inside a merge, at most  *)
(* one Activity carries a given non-null garmin_activity_id.               *)
UniqueGarminIds(acts) ==
  \A a, b \in acts :
     (a.garmin_activity_id # NULL /\ a.garmin_activity_id = b.garmin_activity_id)
       => a = b

C2_UniqueGarminId ==
  /\ UniqueGarminIds(activities)
  /\ \A i \in DOMAIN last.flushed : UniqueGarminIds(last.flushed[i])

(* a merge has moved a device identifier onto a manual row, through an     *)
(* intermediate flush                                                      *)
C2_Witness ==
  /\ last.op = "merge" /\ Len(last.flushed) >= 2
  /\ \E a \in activities :
        a.data_source = "merged" /\ a.garmin_activity_id # NULL

(* C3 as stated: when a CSV is imported and then imported again, the       *)
(* second run reports created = 0 and skipped = the number of workouts the *)
(* first run created (the first run is not itself a re-import).            *)
C3_SkippedEqualsFirstCreated ==
  [][ (/\ last.op = "import_hevy" /\ ~last.repeat /\ last'.op = "import_hevy"
       /\ last'.user = last.user /\ last'.arg = last.arg)
      => (/\ last'.created = 0
          /\ last'.skipped = last.created
          /\ Cardinality(activities') = Cardinality(activities)
          /\ Cardinality(details') = Cardinality(details)) ]_vars

(* C3 amended: the second of two identical imports creates nothing, skips  *)
(* every workout of the CSV (the first run's created + skipped) and leaves *)
(* the Activity and GymWorkoutDetail rows as they were.                    *)
C3_ReimportSkipsAll ==
  [][ (/\ last.op = "import_hevy" /\ last'.op = "import_hevy"
       /\ last'.user = last.user /\ last'.arg = last.arg)
      => (/\ last'.created = 0
          /\ last'.skipped = Len(last'.arg)
          /\ last'.skipped = last.created + last.skipped
          /\ activities' = activities
          /\ details' = details) ]_vars

(* the same CSV has been imported twice in a row, the first run creating   *)
(* at least one workout                                                    *)
C3_Witness ==
  /\ last.op = "import_hevy" /\ last.repeat /\ last.prevDone >= 1
  /\ last.skipped = Len(last.arg)

(* C4 as stated: after an import_health_snapshot call exactly one snapshot *)
(* is stored for its (user, date); no error is raised; a call for a        *)
(* (user, date) that already has a snapshot returns False and changes      *)
(* nothing; no stored snapshot is ever removed or changed.                 *)
SnapshotsOf(snaps, user_id, day) ==
  {s \in snaps : s.user_id = user_id /\ s.snapshot_date = day}

RowById(acts, id) == CHOOSE a \in acts : a.id = id

C5_BestOverlapWins ==
  [][ last'.op = "merge"
      => LET H == UnmergedGym(activities, last'.user, "hevy")
             G == UnmergedGym(activities, last'.user, "garmin")
             taken == {p[2] : p \in last'.pairs}
             left == {g \in G : g.id \notin taken}
         IN /\ \A p \in last'.pairs :
                 LET h == RowById(H, p[1])
                     g == RowById(G, p[2])
                 IN /\ OverlapSeconds(h, g) > 0
                    /\ \A g2 \in left :
                          \/ OverlapSeconds(h, g) > OverlapSeconds(h, g2)
                          \/ /\ OverlapSeconds(h, g) = OverlapSeconds(h, g2)
                             /\ g.id < g2.id
            /\ \A h \in H :
                 (h.id \notin {p[1] : p \in last'.pairs})
                   => \A g2 \in left : OverlapSeconds(h, g2) <= 0
            /\ left \subseteq activities'
            /\ \A g \in G : g.id \in taken => g \notin activities' ]_vars

(* a manual activity was merged while another device gym activity that     *)
(* overlaps it stays stored, still tagged garmin                           *)
C5_Witness ==
  /\ last.op = "merge"
  /\ \E p \in last.pairs :
        \E a \in activities, g2 \in UnmergedGym(activities, last.user, "garmin") :
           /\ a.id = p[1] /\ a.data_source = "merged" /\ a.end_time # NULL
           /\ OverlapSeconds(a, g2) > 0

(* C6 as stated: each interval is widened by the tolerance on both of its  *)
(* ends; a pair is a match candidate exactly when the two widened          *)
(* intervals intersect for more than zero seconds, and candidates are      *)
(* ranked by the length of that intersection.                              *)
BothEndsWidened(a) ==
  [lo |-> a.start_time - OVERLAP_TOLERANCE,
   hi |-> EffectiveEnd(a) + OVERLAP_TOLERANCE]

EndWidened(a) ==
  [lo |-> a.start_time, hi |-> EffectiveEnd(a) + OVERLAP_TOLERANCE]

IntersectionLength(i, j) == Min(i.hi, j.hi) - Max(i.lo, j.lo)

C6_BothEndsWidened ==
  [][ last'.op = "merge"
      => LET H == UnmergedGym(activities, last'.user, "hevy")
             G == UnmergedGym(activities, last'.user, "garmin")
             left == {g \in G : g.id \notin {p[2] : p \in last'.pairs}}
             len(h, g) == IntersectionLength(BothEndsWidened(h), BothEndsWidened(g))
         IN /\ \A p \in last'.pairs :
                 /\ len(RowById(H, p[1]), RowById(G, p[2])) > 0
                 /\ \A g2 \in left : len(RowById(H, p[1]), RowById(G, p[2]))
                                        >= len(RowById(H, p[1]), g2)
            /\ \A h \in H :
                 (h.id \notin {p[1] : p \in last'.pairs})
                   => \A g2 \in left : len(h, g2) <= 0 ]_vars

(* C6 amended: each interval is widened by the tolerance on its end only   *)
(* (its start is not moved); a pair is a match candidate exactly when      *)
(* these two intervals intersect for more than zero seconds, and           *)
(* candidates are ranked by the length of that intersection.               *)
C6_EndWidened ==
  [][ last'.op = "merge"
      => LET H == UnmergedGym(activities, last'.user, "hevy")
             G == UnmergedGym(activities, last'.user, "garmin")
             left == {g \in G : g.id \notin {p[2] : p \in last'.pairs}}
             len(h, g) == IntersectionLength(EndWidened(h), EndWidened(g))
         IN /\ \A p \in last'.pairs :
                 /\ len(RowById(H, p[1]), RowById(G, p[2])) > 0
                 /\ \A g2 \in left : len(RowById(H, p[1]), RowById(G, p[2]))
                                        >= len(RowById(H, p[1]), g2)
            /\ \A h \in H :
                 (h.id \notin {p[1] : p \in last'.pairs})
                   => \A g2 \in left : len(h, g2) <= 0 ]_vars

(* after a merge that matched something, a manual activity and a device    *)
(* gym activity are both still stored whose end-widened intervals only     *)
(* touch (zero seconds) while their both-ends-widened intervals intersect  *)
C6_Witness ==
  /\ last.op = "merge" /\ last.merged >= 1
  /\ \E a \in activities, g \in UnmergedGym(activities, last.user, "garmin") :
        /\ a.user_id = last.user /\ a.sport = "gym"
        /\ a.data_source \in {"hevy", "merged"} /\ a.end_time # NULL
        /\ IntersectionLength(EndWidened(a), EndWidened(g)) <= 0
        /\ IntersectionLength(BothEndsWidened(a), BothEndsWidened(g)) > 0

(* C7: in one merge pass no device activity is matched to two manual       *)
(* activities, no manual activity is matched to two device activities,     *)
(* and the merged count is the number of matched pairs.                    *)
C7_OneToOne ==
  last.op = "merge"
    => /\ \A p, q \in last.pairs : (p[1] = q[1] \/ p[2] = q[2]) => p = q
       /\ last.merged = Cardinality(last.pairs)

(* a pass matched a device activity to one manual activity and left        *)
(* unmatched another manual activity that overlaps that device activity    *)
C7_Witness ==
  /\ last.op = "merge"
  /\ \E p \in last.pairs :
        \E a \in activities, h \in UnmergedGym(activities, last.user, "hevy"),
           raw \in RawActivities :
           /\ a.id = p[1] /\ a.data_source = "merged"
           /\ raw.activityId = a.garmin_activity_id
           /\ OverlapSeconds(h, MapActivity(p[2], last.user, raw)) > 0

(* C8: after a merge pass, for every matched pair the row with the manual  *)
(* activity's id keeps its user, title and start time, is tagged merged,   *)
(* carries the device row's avg/max heart rate, calories, HR zones, both   *)
(* training effects and garmin_activity_id, and the device row is gone.    *)
C8_ManualRowSurvives ==
  [][ last'.op = "merge"
      => \A p \in last'.pairs :
           LET h == RowById(activities, p[1])
               g == RowById(activities, p[2])
               after == {a \in activities' : a.id = p[1]}
           IN /\ Cardinality(after) = 1
              /\ \A a \in after :
                   /\ a.user_id = h.user_id /\ a.title = h.title
                   /\ a.start_time = h.start_time
                   /\ a.data_source = "merged"
                   /\ a.avg_hr = g.avg_hr /\ a.max_hr = g.max_hr
                   /\ a.calories = g.calories /\ a.hr_zones = g.hr_zones
                   /\ a.training_effect_aerobic = g.training_effect_aerobic
                   /\ a.training_effect_anaerobic = g.training_effect_anaerobic
                   /\ a.garmin_activity_id = g.garmin_activity_id
              /\ h.data_source = "hevy" /\ g.data_source = "garmin"
              /\ \A a \in activities' :
                   a.id # p[2] /\ (a.garmin_activity_id = g.garmin_activity_id
                                    => a.id = p[1]) ]_vars

(* a pass has merged a pair: the surviving row is tagged merged and holds  *)
(* heart rate, calories, HR zones and training effects                     *)
C8_Witness ==
  /\ last.op = "merge"
  /\ \E p \in last.pairs : \E a \in activities :
        /\ a.id = p[1] /\ a.data_source = "merged"
        /\ a.avg_hr # NULL /\ a.calories # NULL /\ a.hr_zones # NULL
        /\ a.training_effect_anaerobic # NULL /\ a.garmin_activity_id # NULL

(* C9: an import_hevy_workouts run creates no Activity row and no          *)
(* GymWorkoutDetail row for a workout whose (user, title, start_time) is   *)
(* already stored on a row tagged merged.                                  *)
C9_MergedWorkoutSkipped ==
  [][ last'.op = "import_hevy"
      => \A i \in DOMAIN last'.arg :
           (\E m \in activities :
               /\ m.user_id = last'.user /\ m.data_source = "merged"
               /\ m.title = last'.arg[i].title
               /\ m.start_time = last'.arg[i].start_time)
           => LET mine(acts) == {a \in acts : /\ a.user_id = last'.user
                                              /\ a.title = last'.arg[i].title
                                              /\ a.start_time = last'.arg[i].start_time}
              IN /\ mine(activities') = mine(activities)
                 /\ \A d \in details' \ details :
                      d.activity_id \notin {a.id : a \in mine(activities')} ]_vars

(* an import has run over a workout that is stored tagged merged, and      *)
(* skipped it                                                              *)
C9_Witness ==
  /\ last.op = "import_hevy" /\ last.skipped >= 1
  /\ \E i \in DOMAIN last.arg : \E m \in activities :
        /\ m.user_id = last.user /\ m.data_source = "merged"
        /\ m.title = last.arg[i].title /\ m.start_time = last.arg[i].start_time

(* C10: an invocation that gets past the existence check makes at most two *)
(* model calls; when the first response fails JSON extraction or schema    *)
(* validation it makes exactly two; and when the second call fails as well *)
(* it raises, adds no insight, and adds a PromptLog row with success false *)
FailsValidation(outcome) ==
  \/ ~outcome.response.json
  \/ ~outcome.response.required
  \/ outcome.response.readiness_verdict
        \notin {"go_hard", "moderate", "active_recovery", "rest"}

GenerationOps == {"daily_briefing", "weekly_plan", "post_workout"}

C12_AlwaysLogged ==
  [][ (last'.op \in GenerationOps /\ last'.calls >= 1)
      => /\ promptLogs \subseteq promptLogs'
         /\ Cardinality(promptLogs' \ promptLogs) = 1
         /\ \A l \in promptLogs' \ promptLogs :
               /\ l.prompt_type = last'.op
               /\ l.success = (last'.raised = "none")
         /\ last'.raised \in {"none", "RuntimeError"} ]_vars

(* a post-workout analysis failed after its model calls and its PromptLog  *)
(* row is stored                                                           *)
C12_Witness ==
  /\ last.op = "post_workout" /\ last.calls = 2 /\ last.raised = "RuntimeError"
  /\ \E l \in promptLogs : l.prompt_type = "post_workout" /\ ~l.success

(* C13: a generation call for a key that already has its artifact (a daily *)
(* briefing of the user and date, a post-workout analysis of the user and  *)
(* activity, an active plan of the user and week) raises ValueError, makes *)
(* no model call and changes no stored row.                                *)
C13_ConflictChangesNothing ==
  [][ (\/ /\ last'.op = "daily_briefing"
          /\ \E i \in insights : /\ i.user_id = last'.user
                                 /\ i.insight_date = last'.arg.today
                                 /\ i.insight_type = "daily_briefing"
       \/ /\ last'.op = "post_workout"
          /\ \E i \in insights : /\ i.user_id = last'.user
                                 /\ i.activity_id = last'.arg.activity_id
                                 /\ i.insight_type = "post_workout"
       \/ /\ last'.op = "weekly_plan"
          /\ \E p \in weeklyPlans : /\ p.user_id = last'.user
                                    /\ p.week_start = last'.arg.week_start
                                    /\ p.status = "active")
      => /\ last'.raised = "ValueError"
         /\ last'.calls = 0
         /\ UNCHANGED <<activities, details, snapshots, insights, promptLogs,
                        weeklyPlans, plannedSessions, availability>> ]_vars

(* a weekly plan was asked for a week that has an active plan, with a      *)
(* model answer at hand that would have been valid                         *)
C13_Witness ==
  /\ last.op = "weekly_plan" /\ last.stage = "idempotency"
  /\ last.raised = "ValueError"
  /\ ~last.arg.first.raises /\ last.arg.first.response.content = 11
  /\ \E p \in weeklyPlans : p.week_start = last.arg.week_start

(* C14 as stated: at most one CoachingInsight per (user, date, type).      *)
C14_OnePerUserDateType ==
  \A i, j \in insights :
     (/\ i.user_id = j.user_id /\ i.insight_date = j.insight_date
      /\ i.insight_type = j.insight_type) => i = j

(* C14 amended: at most one daily briefing per (user, date) and at most    *)
(* one post-workout analysis per (user, activity).                         *)
C14_OnePerKey ==
  \A i, j \in insights :
     (/\ i.user_id = j.user_id /\ i.insight_type = j.insight_type
      /\ \/ i.insight_type = "daily_briefing" /\ i.insight_date = j.insight_date
         \/ i.insight_type = "post_workout" /\ i.activity_id = j.activity_id)
     => i = j

(* two activities of one day both have their post-workout analysis *)
C14_Witness ==
  \E i, j \in insights :
     /\ i.insight_type = "post_workout" /\ j.insight_type = "post_workout"
     /\ i.user_id = j.user_id /\ i.insight_date = j.insight_date
     /\ i.activity_id # j.activity_id

(* C15: at most one active WeeklyPlan per (user, week_start); every plan   *)
(* starts on a Monday; every plan has at least one PlannedSession, and     *)
(* all of its sessions have a day_of_week in 0..6.                         *)
C15_PlanInvariant ==
  /\ \A p, q \in weeklyPlans :
        (/\ p.user_id = q.user_id /\ p.week_start = q.week_start
         /\ p.status = "active" /\ q.status = "active") => p = q
  /\ \A p \in weeklyPlans :
        /\ p.week_start % 7 = 1
        /\ \E ps \in plannedSessions : ps.plan_id = p.id
        /\ \A ps \in plannedSessions :
              ps.plan_id = p.id => ps.day_of_week \in 0..6

(* a plan with two sessions is stored and a second call for its week was   *)
(* turned away                                                             *)
C15_Witness ==
  /\ last.op = "weekly_plan" /\ last.stage = "idempotency"
  /\ \E p \in weeklyPlans :
        Cardinality({ps \in plannedSessions : ps.plan_id = p.id}) = 2

(* C16: generate_weekly_plan with a week_start that is not a Monday raises *)
(* ValueError before any query, makes no model call and changes no stored  *)
(* row.                                                                    *)
C16_NonMondayRejected ==
  [][ (last'.op = "weekly_plan" /\ last'.arg.week_start % 7 # 1)
      => /\ last'.raised = "ValueError"
         /\ last'.stage = "arguments"
         /\ last'.calls = 0
         /\ UNCHANGED <<activities, details, snapshots, insights, promptLogs,
                        weeklyPlans, plannedSessions, availability>> ]_vars

(* a Tuesday was asked for while the user has availability and no plan *)
C16_Witness ==
  /\ last.op = "weekly_plan" /\ last.arg.week_start = 2
  /\ last.raised = "ValueError"
  /\ availability # {} /\ weeklyPlans = {}

(* C17: generate_weekly_plan for a week without availability slots raises  *)
(* ValueError, makes no model call and changes no stored row.              *)
C17_NoAvailabilityRejected ==
  [][ (/\ last'.op = "weekly_plan"
       /\ ~\E a \in availability : /\ a.user_id = last'.user
                                   /\ a.week_start = last'.arg.week_start)
      => /\ last'.raised = "ValueError"
         /\ last'.calls = 0
         /\ UNCHANGED <<activities, details, snapshots, insights, promptLogs,
                        weeklyPlans, plannedSessions, availability>> ]_vars

(* a Monday without slots and without a plan was asked for *)
C17_Witness ==
  /\ last.op = "weekly_plan" /\ last.stage = "context"
  /\ last.raised = "ValueError" /\ last.arg.week_start = 1
  /\ availability = {}

(* C18 as stated: a post-workout call for a stored activity that has no    *)
(* analysis yet, answered by the model with a valid response (at once or   *)
(* on the retry), stores the CoachingInsight whatever the planned-session  *)
(* lookup and link do.                                                     *)
AnsweredValid(arg) ==
  /\ ~arg.first.raises
  /\ \/ arg.first.response.json /\ arg.first.response.required
     \/ /\ ~arg.retry.raises
        /\ arg.retry.response.json /\ arg.retry.response.required

C18_LinkNeverBlocks ==
  [][ (/\ last'.op = "post_workout"
       /\ \E a \in activities : a.id = last'.arg.activity_id /\ a.user_id = last'.user
       /\ ~\E i \in insights : /\ i.user_id = last'.user
                               /\ i.activity_id = last'.arg.activity_id
                               /\ i.insight_type = "post_workout"
       /\ AnsweredValid(last'.arg))
      => \E i \in insights' \ insights :
            /\ i.activity_id = last'.arg.activity_id
            /\ i.insight_type = "post_workout" ]_vars

(* C19 as stated: once a PlannedSession is linked to an activity, no step  *)
(* changes that link.                                                      *)
C19_LinkSetOnce ==
  [][ \A ps \in plannedSessions :
         ps.activity_id # NULL
           => \E q \in plannedSessions' :
                 q.id = ps.id /\ q.activity_id = ps.activity_id ]_vars

(* C20: import_activities handles bad items per item. In every import of   *)
(* a device batch, each item without an activityId and each item that      *)
(* fails to map counts as exactly one error and adds no row; every other   *)
(* item of the batch, before or after a bad one, is still created or       *)
(* skipped; the rows stored before the import are kept, and no new row     *)
(* lacks a garmin_activity_id.                                             *)
C20_BadItemsAreErrors ==
  [][ last'.op = "import_activities"
      => LET shape == last'.arg
             bad == {i \in DOMAIN shape :
                       ~shape[i].has_id \/ ~shape[i].has_type_key}
         IN /\ last'.errors = Cardinality(bad)
            /\ last'.created + last'.skipped = Len(shape) - Cardinality(bad)
            /\ activities \subseteq activities'
            /\ Cardinality(activities') = Cardinality(activities) + last'.created
            /\ \A a \in activities' \ activities :
                  /\ a.data_source = "garmin"
                  /\ a.garmin_activity_id # NULL
                  /\ a.title # NoneTypeKey ]_vars

(* a batch of two whose first item failed to map and whose second item     *)
(* was stored                                                              *)
C20_Witness ==
  /\ last.op = "import_activities"
  /\ Len(last.arg) = 2
  /\ last.arg[1].has_id /\ ~last.arg[1].has_type_key
  /\ last.arg[2].has_id /\ last.arg[2].has_type_key
  /\ last.errors = 1 /\ last.created = 1

(* a data row that passes the three checks of the parser loop *)
RowIsValid(row) ==
  /\ MissingField \notin {row.title, row.start_time, row.exercise_title,
                          row.set_index, row.set_type}
  /\ Strip(row.title) # "" /\ Strip(row.exercise_title) # ""
  /\ ParseDatetime(row.start_time) # NULL
  /\ row.set_index \in {"1", "2", "1.5"}

(* the number of sets in a sequence of workouts *)
RECURSIVE TotalSets(_)
TotalSets(workouts) ==
  IF workouts = <<>> THEN 0
  ELSE Len(Head(workouts).sets) + TotalSets(Tail(workouts))

(* C21 as stated: parse_hevy_csv never raises on a malformed data row; it  *)
(* counts the row as skipped with one error, parses the later rows, and    *)
(* rows_parsed + rows_skipped is the number of data rows while the number  *)
(* of sets over all workouts is rows_parsed.                               *)
C21_BadRowsNeverRaise ==
  [][ last'.op = "parse_hevy_csv"
      => LET rows == last'.arg
             bad == {i \in DOMAIN rows : ~RowIsValid(rows[i])}
         IN /\ last'.raised = "none"
            /\ last'.ret.rows_skipped = Cardinality(bad)
            /\ last'.ret.errors = Cardinality(bad)
            /\ last'.ret.rows_parsed + last'.ret.rows_skipped = Len(rows)
            /\ TotalSets(last'.ret.workouts) = last'.ret.rows_parsed ]_vars

(* the grouping key as the claim words it, and as the loop computes it *)
RawKey(row) == <<row.title, row.start_time>>

StrippedKey(row) == <<Strip(row.title), Strip(row.start_time)>>

(* the set a valid row contributes *)
SetOfRow(row) ==
  [exercise_title |-> Strip(row.exercise_title),
   set_index |-> IF row.set_index = "2" THEN 2 ELSE 1]

(* workouts are the groups of the valid rows of the document under Key(_): *)
(* one workout per key, in the order of each key's first row, each with    *)
(* the sets of its rows in row order                                       *)
GroupedBy(Key(_), rows, workouts) ==
  LET valid == {i \in DOMAIN rows : RowIsValid(rows[i])}
      keys == {Key(rows[i]) : i \in valid}
      rowsOf(k) == {i \in valid : Key(rows[i]) = k}
      first(k) == CHOOSE i \in rowsOf(k) : \A j \in rowsOf(k) : i <= j
  IN /\ Len(workouts) = Cardinality(keys)
     /\ \A k \in keys :
          LET pos == 1 + Cardinality({k2 \in keys : first(k2) < first(k)})
              w == workouts[pos]
          IN /\ pos \in DOMAIN workouts
             /\ w.title = Strip(k[1])
             /\ w.start_time = ParseDatetime(k[2])
             /\ Len(w.sets) = Cardinality(rowsOf(k))
             /\ \A i \in rowsOf(k) :
                  w.sets[1 + Cardinality({j \in rowsOf(k) : j < i})]
                    = SetOfRow(rows[i])

(* C22 as stated: one workout per distinct (title, raw start-time string)  *)
(* pair, workouts in first-seen order, sets in row order.                  *)
C22_GroupedByRawKey ==
  [][ (last'.op = "parse_hevy_csv" /\ last'.raised = "none")
      => GroupedBy(RawKey, last'.arg, last'.ret.workouts) ]_vars

(* C22: parse_hevy_csv groups the valid rows into one workout per distinct *)
(* (title, start-time string) pair after both strings are stripped of      *)
(* surrounding whitespace; workouts appear in first-seen order and each    *)
(* workout's sets in row order, however the rows are interleaved.          *)
C22_GroupedByStrippedKey ==
  [][ (last'.op = "parse_hevy_csv" /\ last'.raised = "none")
      => GroupedBy(StrippedKey, last'.arg, last'.ret.workouts) ]_vars

(* a document whose first and third row belong to one workout and whose    *)
(* second row to another: two workouts, the first with two different sets  *)
C22_Witness ==
  /\ last.op = "parse_hevy_csv" /\ last.raised = "none"
  /\ Len(last.arg) = 3
  /\ StrippedKey(last.arg[1]) = StrippedKey(last.arg[3])
  /\ StrippedKey(last.arg[1]) # StrippedKey(last.arg[2])
  /\ Len(last.ret.workouts) = 2
  /\ Len(last.ret.workouts[1].sets) = 2
  /\ last.ret.workouts[1].sets[1] # last.ret.workouts[1].sets[2]

(* the snapshot columns each accessor's payload feeds *)
ColumnsOf(accessor) ==
  CASE accessor = "get_stats" ->
         {"resting_hr", "max_hr", "avg_hr", "steps", "intensity_minutes"}
    [] accessor = "get_sleep_data" ->
         {"sleep_duration_minutes", "sleep_score", "sleep_deep_minutes",
          "sleep_light_minutes", "sleep_rem_minutes", "sleep_awake_minutes"}
    [] accessor = "get_hrv_data" -> {"hrv_status", "hrv_7day_avg"}
    [] accessor = "get_stress_data" -> {"avg_stress"}
    [] accessor = "get_body_battery" -> {"body_battery_high", "body_battery_low"}
    [] accessor = "get_training_readiness" -> {"training_readiness"}
    [] accessor = "get_training_status" -> {"training_load", "training_status"}
    [] accessor = "get_max_metrics" -> {"vo2_max"}
    [] accessor = "get_respiration_data" -> {"respiration_avg"}
    [] accessor = "get_spo2_data" -> {"spo2_avg"}

IsNullColumn(row, column) ==
  IF column = "training_status" THEN row[column] = "<None>"
  ELSE row[column] = NULL

(* C23: when per-day accessors raise, the day's snapshot is still built    *)
(* and imported: if no snapshot of the day was stored before, the fetch    *)
(* reports no error and stores one snapshot of the day whose columns are   *)
(* null exactly for the accessors that raised and populated for the rest.  *)
C23_FailedMetricsAreNull ==
  [][ (/\ last'.op = "fetch_health_for_day"
       /\ ~\E s \in snapshots : s.snapshot_date = last'.arg.day)
      => /\ last'.raised = "none" /\ last'.errors = 0 /\ last'.created = 1
         /\ \E s \in snapshots' \ snapshots :
              /\ snapshots' = snapshots \cup {s}
              /\ s.user_id = last'.user
              /\ s.snapshot_date = last'.arg.day
              /\ \A a \in Accessors : \A c \in ColumnsOf(a) :
                   IsNullColumn(s, c) <=> a \in last'.arg.failed ]_vars

(* a day whose HRV accessor alone raised: the snapshot is stored with the  *)
(* HRV columns null and the sleep and heart-rate columns populated         *)
C23_Witness ==
  /\ last.op = "fetch_health_for_day" /\ last.created = 1
  /\ last.arg.failed = {"get_hrv_data"}
  /\ \E s \in snapshots :
       /\ s.snapshot_date = last.arg.day
       /\ s.hrv_status = NULL /\ s.hrv_7day_avg = NULL
       /\ s.sleep_score # NULL /\ s.resting_hr # NULL

(* C24 as stated: a generation that calls the model n times leaves n       *)
(* PromptLog rows, one per attempt.                                        *)
C24_OneRowPerAttempt ==
  [][ (last'.op \in GenerationOps /\ last'.calls >= 1)
      => Cardinality(promptLogs' \ promptLogs) = last'.calls ]_vars

(* a briefing call that never got a response, and one whose two responses  *)
(* both failed validation                                                  *)
NoResponse(summary) ==
  /\ summary.op = "daily_briefing" /\ summary.stage = "model"
  /\ summary.arg.first.raises

InvalidAfterRetry(summary) ==
  /\ summary.op = "daily_briefing" /\ summary.stage = "model"
  /\ ~summary.arg.first.raises /\ FailsValidation(summary.arg.first)
  /\ ~summary.arg.retry.raises /\ FailsValidation(summary.arg.retry)

(* C25 as stated: a briefing call that fails on invalid responses raises   *)
(* another error class than one that never got a response; each writes a   *)
(* PromptLog row, and only the row of the call without a response has no   *)
(* response text.                                                          *)
C25_DistinctErrorClass ==
  [][ /\ (NoResponse(last) /\ InvalidAfterRetry(last'))
          => last'.raised # last.raised
      /\ NoResponse(last')
          => \E l \in promptLogs' \ promptLogs :
                ~l.success /\ l.response_text = NULL
      /\ InvalidAfterRetry(last')
          => \E l \in promptLogs' \ promptLogs :
                ~l.success /\ l.response_text # NULL ]_vars

(* C26: in every state at most one post_workout CoachingInsight exists per *)
(* (user, activity); and a generate_post_workout_analysis call for an      *)
(* activity id the user has no Activity row for raises ValueError before   *)
(* any model call and writes no PromptLog and no CoachingInsight.          *)
C26_OneAnalysisPerActivity ==
  [][ /\ \A i, j \in insights' :
           (/\ i.insight_type = "post_workout" /\ j.insight_type = "post_workout"
            /\ i.user_id = j.user_id /\ i.activity_id = j.activity_id) => i = j
      /\ (/\ last'.op = "post_workout"
          /\ ~\E a \in activities : /\ a.id = last'.arg.activity_id
                                    /\ a.user_id = last'.user)
           => /\ last'.raised = "ValueError" /\ last'.calls = 0
              /\ promptLogs' = promptLogs /\ insights' = insights
              /\ plannedSessions' = plannedSessions ]_vars

(* an analysis of one activity is stored and a call for an activity id     *)
(* that is not stored has just been refused                                *)
C26_Witness ==
  /\ last.op = "post_workout" /\ last.raised = "ValueError"
  /\ last.stage = "context" /\ last.calls = 0
  /\ ~\E a \in activities : a.id = last.arg.activity_id
  /\ \E i \in insights : i.insight_type = "post_workout"

(* the items of a synced batch whose activityId a merged row carries *)
DeliveredAgain(acts, raw_activities) ==
  {i \in DOMAIN raw_activities :
     \E m \in acts : /\ m.data_source = "merged"
                     /\ m.garmin_activity_id = raw_activities[i].activityId}

(* C27: a device sync that delivers an activity whose device row was       *)
(* merged into a manual activity skips it: the merged row stays as it is   *)
(* and is the only row with that external id, activities_skipped counts    *)
(* the item, and when every item of the batch is already stored the number *)
(* of Activity rows does not change.                                       *)
C27_MergedIsNotRecreated ==
  [][ (last'.op = "sync_garmin" /\ last'.raised = "none" /\ ~last'.arg.api_raises)
      => LET batch == last'.arg.raw_activities
             again == DeliveredAgain(activities, batch)
         IN /\ \A i \in again :
                 \E m \in activities :
                    /\ m.data_source = "merged" /\ m \in activities'
                    /\ \A a \in activities' :
                         a.garmin_activity_id = batch[i].activityId => a = m
            /\ last'.skipped >= Cardinality(again)
            /\ (\A i \in DOMAIN batch :
                  \E a \in activities :
                     a.garmin_activity_id = batch[i].activityId)
                => /\ last'.created = 0 /\ last'.skipped = Len(batch)
                   /\ Cardinality(activities') = Cardinality(activities) ]_vars

(* a sync has just delivered only an activity that was merged earlier      *)
C27_Witness ==
  /\ last.op = "sync_garmin" /\ last.raised = "none" /\ ~last.arg.api_raises
  /\ last.created = 0 /\ last.skipped = Len(last.arg.raw_activities)
  /\ DeliveredAgain(activities, last.arg.raw_activities)
       = DOMAIN last.arg.raw_activities

(* the manual row and the device row a merged row was made of; the device  *)
(* row's own id is gone, it gets one past every stored id                  *)
ManualRowOf(m) ==
  HevyActivity(m.id, m.user_id,
               CHOOSE w \in Range(HevyWorkouts) :
                  w.title = m.title /\ w.start_time = m.start_time)

DeviceRowOf(m) ==
  MapActivity(1000 + m.garmin_activity_id, m.user_id,
              CHOOSE raw \in RawActivities : raw.activityId = m.garmin_activity_id)

(* the store as the same imports and syncs leave it when no merge has run *)
NeverMerged(acts) ==
  {a \in acts : a.data_source # "merged"} \cup
  UNION {{ManualRowOf(m), DeviceRowOf(m)} :
           m \in {a \in acts : a.data_source = "merged"}}

(* which manual activity carries which device activity *)
Pairing(acts) ==
  {<<a.title, a.start_time, a.garmin_activity_id>> :
     a \in {x \in acts : x.data_source = "merged"}}

(* C28 as stated: merging once after all imports and syncs pairs the       *)
(* activities as the merges run after each import and sync did.            *)
C28_MergeTimingIrrelevant ==
  Pairing(MergeResult(activities, DEFAULT_USER_ID).acts)
    = Pairing(MergeResult(NeverMerged(activities), DEFAULT_USER_ID).acts)

(* C30: GymWorkoutDetail rows are never changed or removed and always      *)
(* point at a stored gym Activity of the manual source: every step keeps   *)
(* each detail row as it is, every detail row's activity_id is the id of   *)
(* a stored hevy or merged activity, rows added by a step point at an      *)
(* activity that step created, and a merge adds and changes no detail row, *)
(* so the winning activity of each pair keeps exactly its detail rows.     *)
C30_DetailsAreKept ==
  [][ /\ details \subseteq details'
      /\ \A d \in details' :
           \E a \in activities' :
              /\ a.id = d.activity_id /\ a.sport = "gym"
              /\ a.data_source \in {"hevy", "merged"}
      /\ \A d \in details' \ details :
           /\ last'.op = "import_hevy"
           /\ ~\E a \in activities : a.id = d.activity_id
      /\ last'.op = "merge"
           => /\ details' = details
              /\ \A p \in last'.pairs :
                   /\ \E a \in activities' :
                         a.id = p[1] /\ a.data_source = "merged"
                   /\ {d \in details' : d.activity_id = p[1]}
                        = {d \in details : d.activity_id = p[1]} ]_vars

(* a merge has just paired a manual activity that has two detail rows      *)
C30_Witness ==
  /\ last.op = "merge"
  /\ \E p \in last.pairs :
       Cardinality({d \in details : d.activity_id = p[1]}) = 2

DailyBriefingsOf(ins, user_id, day) ==
  {i \in ins : /\ i.user_id = user_id
               /\ i.insight_date = day
               /\ i.insight_type = "daily_briefing"}

(* C29: however two invocations of generate_daily_briefing for the same    *)
(* (user, date) overlap at their suspension points, at most one            *)
(* daily_briefing insight for that pair is ever persisted.                 *)
C29_AtMostOneBriefingPerDay ==
  \A u \in Users, d \in Days : Cardinality(DailyBriefingsOf(insights, u, d)) <= 1

TaggedMerged(acts) == {a \in acts : a.data_source = "merged"}

IdsOf(acts) == {a.id : a \in acts}

(* C31: an importer leaves every stored Activity as it was; a merge pass   *)
(* deletes exactly the device gym rows it matched, so the Activity count   *)
(* drops by the reported merged count and the number of rows tagged merged *)
(* grows by the same count.                                                *)
C31_DeletedOnlyByMerge ==
  [][ /\ last'.op \in {"import_hevy", "import_activities"}
         => activities \subseteq activities'
      /\ last'.op = "merge"
         => /\ IdsOf(activities) \ IdsOf(activities') = {p[2] : p \in last'.pairs}
            /\ \A a \in activities :
                 a.id \notin IdsOf(activities')
                 => /\ a.data_source = "garmin"
                    /\ a.sport = "gym"
                    /\ a.user_id = last'.user
            /\ IdsOf(activities') \subseteq IdsOf(activities)
            /\ Cardinality(activities') = Cardinality(activities) - last'.merged
            /\ Cardinality(TaggedMerged(activities')) =
                 Cardinality(TaggedMerged(activities)) + last'.merged
    ]_vars

(* a pass has merged one pair while a device row it did not match is still *)
(* stored                                                                  *)
C31_Witness ==
  /\ last.op = "merge"
  /\ last.merged = 1
  /\ \E a \in activities : a.data_source = "garmin" /\ a.user_id = last.user
  /\ Cardinality(TaggedMerged(activities)) = 1

(* C32: a merge pass leaves as it was every Activity that is not a gym     *)
(* activity, that is already tagged merged, or that belongs to another     *)
(* user; and when the user has no unmerged manual gym activity or no       *)
(* unmerged device gym activity the pass changes no Activity and reports   *)
(* merged = 0.                                                             *)
C32_MergeFrame ==
  [][ last'.op = "merge"
      => /\ \A a \in activities :
              ( \/ a.sport # "gym"
                \/ a.data_source = "merged"
                \/ a.user_id # last'.user )
              => a \in activities'
         /\ ( \/ UnmergedGym(activities, last'.user, "hevy") = {}
              \/ UnmergedGym(activities, last'.user, "garmin") = {} )
            => /\ activities' = activities
               /\ last'.merged = 0
               /\ last'.pairs = {}
    ]_vars

(* a pass has merged a pair of one user while a gym row of the other user  *)
(* is stored                                                               *)
C32_Witness ==
  /\ last.op = "merge"
  /\ last.merged = 1
  /\ \E a \in activities : a.user_id # last.user /\ a.sport = "gym"

(* the session belongs to the user's active plan of the Monday-anchored    *)
(* week that holds the activity's start date, and has the activity's       *)
(* weekday and sport                                                       *)
PlannedFor(ps, activity, user_id) ==
  LET d == DateOf(activity.start_time) IN
  /\ ps.day_of_week = (d - 1) % 7
  /\ ps.sport = activity.sport
  /\ \E p \in weeklyPlans :
       /\ p.id = ps.plan_id
       /\ p.user_id = user_id
       /\ p.status = "active"
       /\ p.week_start = d - ((d - 1) % 7)

(* C33: a successful generate_post_workout_analysis sets completed and the *)
(* activity link on exactly the PlannedSession rows that belong to the     *)
(* user's active plan of the activity's week and have its weekday and      *)
(* sport, and leaves the other rows as they were; a call that raises       *)
(* (conflict, missing activity, terminal model failure) changes no         *)
(* PlannedSession.                                                         *)
C33_LinksExactlyTheMatch ==
  [][ last'.op = "post_workout"
      => IF last'.raised = "none"
         THEN \E activity \in activities :
                /\ activity.id = last'.arg.activity_id
                /\ activity.user_id = last'.user
                /\ plannedSessions' =
                     { IF PlannedFor(ps, activity, last'.user)
                       THEN [ps EXCEPT !.completed = TRUE,
                                       !.activity_id = activity.id]
                       ELSE ps : ps \in plannedSessions }
         ELSE plannedSessions' = plannedSessions
    ]_vars

(* an analysis has succeeded and linked one session of a plan whose other  *)
(* sessions, of another sport or weekday, are left open                    *)
C33_Witness ==
  /\ last.op = "post_workout"
  /\ last.raised = "none"
  /\ \E ps \in plannedSessions :
       ps.completed /\ ps.activity_id = last.arg.activity_id
  /\ \E ps \in plannedSessions :
       ~ps.completed /\ ps.day_of_week = 0 /\ ps.activity_id = NULL
  /\ \E ps \in plannedSessions : ~ps.completed /\ ps.day_of_week = 1


(* an analysis has succeeded while the only plan is the one of the week    *)
(* after the activity's: its Monday gym session stays open                 *)
C33_OtherWeekWitness ==
  /\ last.op = "post_workout"
  /\ last.raised = "none"
  /\ weeklyPlans # {}
  /\ \A p \in weeklyPlans : p.week_start = 8
  /\ \E ps \in plannedSessions : ps.day_of_week = 0 /\ ps.sport = "gym"
  /\ \A ps \in plannedSessions : ~ps.completed

(* whether the response validates against the schema of the operation *)
ValidatesFor(op, response) ==
  CASE op = "daily_briefing" -> ParseResponse(response)
    [] op = "weekly_plan" -> ParseWeeklyPlan(response)
    [] op = "post_workout" -> ParsePostWorkout(response)

(* C34: for the PromptLog row a generation call writes, success is true    *)
(* exactly when one of the invocation's model calls returned a response    *)
(* that validates, and exactly when the insight or plan is stored by the   *)
(* same step; error is null exactly when success is true; response_text is *)
(* null exactly when no model call of the invocation returned a response.  *)
(* Stored rows are not changed afterwards.                                 *)
C34_LogRowTellsTheOutcome ==
  [][ /\ promptLogs \subseteq promptLogs'
      /\ last'.op \in GenerationOps
         => \A l \in promptLogs' \ promptLogs :
              LET first == last'.arg.first
                  retry == last'.arg.retry
                  validated ==
                    /\ ~first.raises
                    /\ \/ ValidatesFor(last'.op, first.response)
                       \/ ~retry.raises /\ ValidatesFor(last'.op, retry.response)
                  persisted ==
                    IF last'.op = "weekly_plan"
                    THEN weeklyPlans' # weeklyPlans
                    ELSE \E i \in insights' \ insights :
                           i.insight_type = last'.op /\ i.user_id = last'.user
              IN /\ l.success = validated
                 /\ l.success = persisted
                 /\ (l.error = "none") = l.success
                 /\ (l.response_text = NULL) = first.raises
    ]_vars

(* a row of a call that raised, with no response text, is stored beside a  *)
(* row of a generation that succeeded on its retry                         *)
C34_Witness ==
  /\ \E l \in promptLogs :
       ~l.success /\ l.response_text = NULL /\ l.error # "none"
  /\ \E l \in promptLogs :
       l.success /\ l.response_text # NULL /\ l.error = "none"
  /\ last.op \in GenerationOps
  /\ last.calls = 2
  /\ last.raised = "none"

(* C35: the manual row of every pair a merge pass matches keeps its title, *)
(* start time and end time; its duration becomes the device row's only     *)
(* when it had none and the device row has one, and is otherwise what it   *)
(* was.                                                                    *)
C35_DurationOnlyBackfilled ==
  [][ last'.op = "merge"
      => \A p \in last'.pairs :
           \E hevy \in activities, garmin \in activities, after \in activities' :
             /\ hevy.id = p[1] /\ garmin.id = p[2] /\ after.id = p[1]
             /\ after.title = hevy.title
             /\ after.start_time = hevy.start_time
             /\ after.end_time = hevy.end_time
             /\ after.duration_minutes =
                  IF hevy.duration_minutes = NULL /\ garmin.duration_minutes # NULL
                  THEN garmin.duration_minutes
                  ELSE hevy.duration_minutes
    ]_vars

(* a pass has merged a workout that had a duration with a device row of    *)
(* another duration, and a workout without one that took the device row's  *)
C35_Witness ==
  /\ last.op = "merge"
  /\ last.merged >= 1
  /\ \E a \in activities :
       /\ a.data_source = "merged" /\ a.end_time # NULL
       /\ a.duration_minutes = 60
  /\ \E a \in activities :
       /\ a.data_source = "merged" /\ a.end_time = NULL
       /\ a.duration_minutes = 30

(* a workout without a duration has been merged with a device row that has *)
(* none either and still has no duration                                   *)
C35_NoDurationWitness ==
  /\ last.op = "merge"
  /\ last.merged >= 1
  /\ \E a \in activities :
       /\ a.data_source = "merged"
       /\ a.duration_minutes = NULL
       /\ a.garmin_activity_id = 106

(* C36: in every state the importers and the merger reach, an Activity     *)
(* tagged merged is a gym activity with a device identifier, and an        *)
(* Activity tagged hevy has no device identifier.                          *)
C36_TagAgreesWithDeviceId ==
  \A a \in activities :
    /\ a.data_source = "merged"
       => a.sport = "gym" /\ a.garmin_activity_id # NULL
    /\ a.data_source = "hevy" => a.garmin_activity_id = NULL

(* a merged row and an unmerged manual row are stored, and the last sync   *)
(* was handed an item without an activityId                                *)
C36_Witness ==
  /\ \E a \in activities : a.data_source = "merged"
  /\ \E a \in activities : a.data_source = "hevy"
  /\ last.op = "import_activities"
  /\ last.errors >= 1
====
